---------------------------- MODULE Spec2Model ----------------------------
(***************************************************************************)
(* A model of the meowienight recommendation engine: the title normalizer  *)
(* and watched matcher (movie_recommender_improved.py), the prediction     *)
(* engine and reason generator (app.py), the both-loved relation, the      *)
(* candidate aggregation and ranking, and the pipeline orchestrator        *)
(* (pipeline.py, scraper.py).                                              *)
(*                                                                         *)
(* Strings are sequences of one-character strings.  Floats (star ratings   *)
(* out of 5, catalog ratings out of 10) are exact fractions, and a missing *)
(* value read back from a CSV table is NaN.                                *)
(***************************************************************************)
EXTENDS Integers, Sequences, FiniteSets, TLC

VARIABLES
    \* title normalizer / watched matcher
    x, n1, n2, watched, tphase,
    \* the two users' watch histories as read from their tables
    gorg_films, sali_films,
    \* prediction engine
    movie, item_sources, gorg_pred, sali_pred, result, pstatus,
    \* both-loved relation
    both_loved, index_both_loved, lphase,
    \* aggregation and ranking
    recommendations, sorted_recs, loved_pos, processed, aphase,
    occurrences, watched_skips, recommendations_list, rec_csv,
    \* pipeline orchestrator
    lock, pc, tables, solo, output, steps, fired_during, run_films,
    \* admission of one suggestion
    cand, cand_loved, cand_watched, cand_recs, cphase,
    \* profile scraper
    page, attempt, scrape_films, failure, sphase,
    \* table loading
    csv, loaded, ldphase,
    \* a table file under a write and a read
    file, old_rows, new_rows, written, wphase, observed, rphase,
    \* catalog gateway
    tmdb_cache, call_log,
    \* TV recommender
    tv_recommendations, sorted_tv_recs, tv_recommendations_list, genre_pos, tvphase

titleVars == <<x, n1, n2, watched, tphase>>

filmVars == <<gorg_films, sali_films>>

predVars == <<movie, item_sources, gorg_pred, sali_pred, result, pstatus>>

lovedVars == <<both_loved, index_both_loved, lphase>>

aggVars == <<recommendations, sorted_recs, loved_pos, processed, aphase,
            occurrences, watched_skips, recommendations_list, rec_csv>>

pipeVars == <<lock, pc, tables, solo, output, steps, fired_during, run_films>>

admitVars == <<cand, cand_loved, cand_watched, cand_recs, cphase>>

scrapeVars == <<page, attempt, scrape_films, failure, sphase>>

loadVars == <<csv, loaded, ldphase>>

fileVars == <<file, old_rows, new_rows, written, wphase, observed, rphase>>

gateVars == <<tmdb_cache, call_log>>

tvVars == <<tv_recommendations, sorted_tv_recs, tv_recommendations_list, genre_pos, tvphase>>

vars == <<titleVars, filmVars, predVars, lovedVars, aggVars, pipeVars, admitVars, scrapeVars, loadVars, fileVars, gateVars, tvVars>>

-----------------------------------------------------------------------------
(* Characters and Python string primitives *)

UpperLetters == {"A","B","C","D","E","F","G","H","I","J","K","L","M",
                 "N","O","P","Q","R","S","T","U","V","W","X","Y","Z"}

LowerLetters == {"a","b","c","d","e","f","g","h","i","j","k","l","m",
                 "n","o","p","q","r","s","t","u","v","w","x","y","z"}

Digits == {"0","1","2","3","4","5","6","7","8","9"}

LowerMap ==
    [c \in UpperLetters |->
        CASE c = "A" -> "a" [] c = "B" -> "b" [] c = "C" -> "c" [] c = "D" -> "d"
          [] c = "E" -> "e" [] c = "F" -> "f" [] c = "G" -> "g" [] c = "H" -> "h"
          [] c = "I" -> "i" [] c = "J" -> "j" [] c = "K" -> "k" [] c = "L" -> "l"
          [] c = "M" -> "m" [] c = "N" -> "n" [] c = "O" -> "o" [] c = "P" -> "p"
          [] c = "Q" -> "q" [] c = "R" -> "r" [] c = "S" -> "s" [] c = "T" -> "t"
          [] c = "U" -> "u" [] c = "V" -> "v" [] c = "W" -> "w" [] c = "X" -> "x"
          [] c = "Y" -> "y" [] c = "Z" -> "z"]

\* \s of the regular expressions, and the whitespace of str.strip / str.split
IsSpace(c) == c = " "

\* \w of the regular expressions
IsWord(c) == c \in LowerLetters \/ c \in UpperLetters \/ c \in Digits \/ c = "_"

\* str.lower()
RECURSIVE Lower(_)
Lower(s) ==
    IF s = <<>> THEN <<>>
    ELSE <<IF Head(s) \in UpperLetters THEN LowerMap[Head(s)] ELSE Head(s)>> \o Lower(Tail(s))

RECURSIVE LStrip(_)
LStrip(s) == IF s # <<>> /\ IsSpace(Head(s)) THEN LStrip(Tail(s)) ELSE s

RECURSIVE RStrip(_)
RStrip(s) ==
    IF s # <<>> /\ IsSpace(s[Len(s)]) THEN RStrip(SubSeq(s, 1, Len(s) - 1)) ELSE s

\* str.strip()
Strip(s) == RStrip(LStrip(s))

\* s[n:]
Drop(s, n) == SubSeq(s, n + 1, Len(s))

\* needle in hay
Contains(hay, needle) ==
    \E i \in 0..(Len(hay) - Len(needle)) : SubSeq(hay, i + 1, i + Len(needle)) = needle

StartsWith(s, p) == Len(p) <= Len(s) /\ SubSeq(s, 1, Len(p)) = p

\* s.replace(old, new), old non-empty: leftmost non-overlapping occurrences
RECURSIVE Replace(_, _, _)
Replace(s, old, new) ==
    IF s = <<>> THEN <<>>
    ELSE IF StartsWith(s, old) THEN new \o Replace(Drop(s, Len(old)), old, new)
    ELSE <<Head(s)>> \o Replace(Tail(s), old, new)

\* the characters of s outside the set cs
RemoveChars(s, cs) == SelectSeq(s, LAMBDA c : c \notin cs)

\* s.split(sep), sep non-empty: the pieces between the occurrences of sep
RECURSIVE SplitAcc(_, _, _)
SplitAcc(s, sep, cur) ==
    IF s = <<>> THEN <<cur>>
    ELSE IF StartsWith(s, sep) THEN <<cur>> \o SplitAcc(Drop(s, Len(sep)), sep, <<>>)
    ELSE SplitAcc(Tail(s), sep, Append(cur, Head(s)))

Split(s, sep) == SplitAcc(s, sep, <<>>)

\* sep.join(parts)
RECURSIVE Join(_, _)
Join(parts, sep) ==
    IF parts = <<>> THEN <<>>
    ELSE IF Len(parts) = 1 THEN parts[1]
    ELSE parts[1] \o sep \o Join(Tail(parts), sep)

RECURSIVE Flatten(_)
Flatten(parts) == IF parts = <<>> THEN <<>> ELSE Head(parts) \o Flatten(Tail(parts))

\* "(dddd)" starts at position i of s
YearAt(s, i) ==
    /\ i + 5 <= Len(s)
    /\ s[i] = "("
    /\ \A k \in 1..4 : s[i + k] \in Digits
    /\ s[i + 5] = ")"

\* re.sub(r'\s*\(\d{4}\)\s*', '', s): one left-to-right pass; a match is a run of
\* spaces, a parenthesized four-digit year and the run of spaces after it
RECURSIVE RemoveYear(_)
RemoveYear(s) ==
    IF s = <<>> THEN <<>>
    ELSE LET k == Len(s) - Len(LStrip(s))
         IN  IF YearAt(s, k + 1)
             THEN RemoveYear(LStrip(Drop(s, k + 6)))
             ELSE <<Head(s)>> \o RemoveYear(Tail(s))

\* re.search(r'\((\d{4})\)', s): the digits of the first parenthesized year, or <<>>
RECURSIVE SearchYear(_)
SearchYear(s) ==
    IF s = <<>> THEN <<>>
    ELSE IF YearAt(s, 1) THEN SubSeq(s, 2, 5)
    ELSE SearchYear(Tail(s))

DigitValue(c) ==
    CASE c = "0" -> 0 [] c = "1" -> 1 [] c = "2" -> 2 [] c = "3" -> 3 [] c = "4" -> 4
      [] c = "5" -> 5 [] c = "6" -> 6 [] c = "7" -> 7 [] c = "8" -> 8 [] c = "9" -> 9

\* int(digits)
RECURSIVE ParseInt(_)
ParseInt(ds) ==
    IF ds = <<>> THEN 0 ELSE 10 * ParseInt(SubSeq(ds, 1, Len(ds) - 1)) + DigitValue(ds[Len(ds)])

\* ' '.join(s.split()): runs of whitespace become one space, the ends are stripped
RECURSIVE CollapseStripped(_)
CollapseStripped(s) ==
    IF s = <<>> THEN <<>>
    ELSE IF IsSpace(Head(s)) THEN <<" ">> \o CollapseStripped(LStrip(s))
    ELSE <<Head(s)>> \o CollapseStripped(Tail(s))

CollapseSpaces(s) == CollapseStripped(Strip(s))

-----------------------------------------------------------------------------
(* Title normalizer, movie_recommender_improved.py *)

normalize_title(title) ==
    IF title = <<>> THEN <<>>
    ELSE SelectSeq(CollapseSpaces(RemoveYear(Strip(Lower(title)))),
                   LAMBDA c : IsWord(c) \/ IsSpace(c))

-----------------------------------------------------------------------------
(* Watch sets and the watched matcher, movie_recommender_improved.py *)

\* set(df['film_title'].apply(normalize_title))
watched_set(films) == {normalize_title(films[i].film_title) : i \in 1..Len(films)}

\* set(gorg_df titles .lower().strip()) | set(sali_df titles .lower().strip())
all_watched_titles(gorg_df, sali_df) ==
    {Strip(Lower(gorg_df[i].film_title)) : i \in 1..Len(gorg_df)}
        \cup {Strip(Lower(sali_df[i].film_title)) : i \in 1..Len(sali_df)}

\* shorter / longer > 0.7
SimilarLength(a, b) ==
    LET shorter == IF Len(a) < Len(b) THEN Len(a) ELSE Len(b)
        longer == IF Len(a) < Len(b) THEN Len(b) ELSE Len(a)
    IN  10 * shorter > 7 * longer

\* A variant of the fuzzy step without the length ratio.
FuzzyWatched_any_length(similar_title_norm, watched_norm) ==
    \E watched_title \in watched_norm :
        /\ Len(similar_title_norm) > 8
        /\ Len(watched_title) > 8
        /\ \/ Contains(watched_title, similar_title_norm)
           \/ Contains(similar_title_norm, watched_title)

FuzzyWatched(similar_title_norm, watched_norm) ==
    \E watched_title \in watched_norm :
        /\ Len(similar_title_norm) > 8
        /\ Len(watched_title) > 8
        /\ \/ Contains(watched_title, similar_title_norm)
           \/ Contains(similar_title_norm, watched_title)
        /\ SimilarLength(similar_title_norm, watched_title)

\* A variant whose exact step looks the raw lowercased candidate up in the
\* normalized watch sets.
already_watched_raw_lookup(similar_title, loved_title, gorg_watched, sali_watched, all_watched) ==
    LET similar_title_norm == normalize_title(similar_title)
        similar_title_lower == Strip(Lower(similar_title))
    IN  \/ similar_title_lower \in gorg_watched \/ similar_title_lower \in sali_watched
        \/ similar_title_lower \in all_watched
        \/ similar_title_norm = normalize_title(loved_title)
        \/ FuzzyWatched(similar_title_norm, gorg_watched \cup sali_watched)

\* the already_watched flag of the aggregation loop
already_watched(similar_title, loved_title, gorg_watched, sali_watched, all_watched) ==
    LET similar_title_norm == normalize_title(similar_title)
        similar_title_lower == Strip(Lower(similar_title))
    IN  \/ similar_title_norm \in gorg_watched \/ similar_title_norm \in sali_watched
        \/ similar_title_lower \in all_watched
        \/ similar_title_norm = normalize_title(loved_title)
        \/ FuzzyWatched(similar_title_norm, gorg_watched \cup sali_watched)

-----------------------------------------------------------------------------
(* Specification SpecTitle: the normalizer and the matcher on bounded titles *)

\* the values the variables of the other specifications rest at
TitleParked ==
    /\ x = <<>>
    /\ n1 = <<>>
    /\ n2 = <<>>
    /\ watched = FALSE
    /\ tphase = "off"

FilmsParked ==
    /\ gorg_films = <<>>
    /\ sali_films = <<>>

PredParked ==
    /\ movie = <<>>
    /\ item_sources = <<>>
    /\ gorg_pred = <<>>
    /\ sali_pred = <<>>
    /\ result = <<>>
    /\ pstatus = "off"

LovedParked ==
    /\ both_loved = <<>>
    /\ index_both_loved = <<>>
    /\ lphase = "off"

AggParked ==
    /\ recommendations = <<>>
    /\ sorted_recs = <<>>
    /\ loved_pos = 0
    /\ processed = 0
    /\ aphase = "off"
    /\ occurrences = <<>>
    /\ watched_skips = 0
    /\ recommendations_list = <<>>
    /\ rec_csv = <<>>

PipeParked ==
    /\ lock = 0
    /\ pc = <<>>
    /\ tables = <<>>
    /\ solo = <<>>
    /\ output = <<>>
    /\ steps = <<>>
    /\ fired_during = <<>>
    /\ run_films = <<>>

AdmitParked ==
    /\ cand = <<>>
    /\ cand_loved = <<>>
    /\ cand_watched = FALSE
    /\ cand_recs = <<>>
    /\ cphase = "off"

ScrapeParked ==
    /\ page = 0
    /\ attempt = 0
    /\ scrape_films = <<>>
    /\ failure = "none"
    /\ sphase = "off"

LoadParked ==
    /\ csv = <<>>
    /\ loaded = <<>>
    /\ ldphase = "off"

FileParked ==
    /\ file = <<>>
    /\ old_rows = <<>>
    /\ new_rows = <<>>
    /\ written = 0
    /\ wphase = "off"
    /\ observed = <<>>
    /\ rphase = "off"

GateParked ==
    /\ tmdb_cache = <<>>
    /\ call_log = <<>>

TvParked ==
    /\ tv_recommendations = <<>>
    /\ sorted_tv_recs = <<>>
    /\ tv_recommendations_list = <<>>
    /\ genre_pos = 0
    /\ tvphase = "parked"

MaxPieces == 4

\* the pieces titles are put together from
Pieces ==
    { <<"a">>, <<"B">>, <<" ">>, <<"&">>,
      <<"(", "1", "9", "9", "9", ")">>, <<"(", "1">>, <<"9", "9", "9", ")">> }

TitleInputs ==
    {Flatten(ps) : ps \in UNION {[1..n -> Pieces] : n \in 0..MaxPieces}}

\* loved titles the candidate is checked against
SourceTitles == { <<"a">>, <<"Z", "z">> }

TitleInit ==
    /\ x \in TitleInputs
    /\ n1 = <<>>
    /\ n2 = <<>>
    /\ watched = FALSE
    /\ tphase = "input"
    /\ FilmsParked
    /\ PredParked
    /\ LovedParked
    /\ AggParked
    /\ PipeParked
    /\ AdmitParked
    /\ ScrapeParked
    /\ LoadParked
    /\ FileParked
    /\ GateParked
    /\ TvParked

Normalize ==
    /\ tphase = "input"
    /\ n1' = normalize_title(x)
    /\ tphase' = "once"
    /\ UNCHANGED <<x, n2, watched>>
    /\ UNCHANGED <<filmVars, predVars, lovedVars, aggVars, pipeVars, admitVars, scrapeVars, loadVars, fileVars, gateVars, tvVars>>

Renormalize ==
    /\ tphase = "once"
    /\ n2' = normalize_title(n1)
    /\ tphase' = "twice"
    /\ UNCHANGED <<x, n1, watched>>
    /\ UNCHANGED <<filmVars, predVars, lovedVars, aggVars, pipeVars, admitVars, scrapeVars, loadVars, fileVars, gateVars, tvVars>>

\* the matcher applied to candidate x with watch sets {normalize(x)}, {x.lower()}
MatchSelf ==
    /\ tphase = "input"
    /\ \E loved_title \in SourceTitles :
          watched' = already_watched(x, loved_title, {normalize_title(x)}, {}, {Lower(x)})
    /\ tphase' = "matched"
    /\ UNCHANGED <<x, n1, n2>>
    /\ UNCHANGED <<filmVars, predVars, lovedVars, aggVars, pipeVars, admitVars, scrapeVars, loadVars, fileVars, gateVars, tvVars>>

TitleNext == Normalize \/ Renormalize \/ MatchSelf

SpecTitle == TitleInit /\ [][TitleNext]_vars

\* C6: normalizing an already normalized title changes nothing.
C6_NormalizeIdempotent == tphase = "twice" => n2 = n1

\* C7: a non-empty candidate checked against the watch sets built from itself
\* is classified as watched.
C7_MatcherReflexive == (tphase = "matched" /\ x # <<>>) => watched

C7_Witness ==
    /\ tphase = "matched"
    /\ x # <<>>
    /\ watched
    /\ normalize_title(x) # Lower(x)
    /\ Strip(Lower(x)) # Lower(x)

-----------------------------------------------------------------------------
(* Python floats: exact fractions num/den with den > 0, and NaN (den = 0). *)
(* A missing rating read from a table is NaN.                              *)

RECURSIVE GCD(_, _)
GCD(a, b) == IF b = 0 THEN a ELSE GCD(b, a % b)

Frac(n, d) == LET g == GCD(n, d) IN [num |-> n \div g, den |-> d \div g]

Num(k) == [num |-> k, den |-> 1]

NaN == [num |-> 0, den |-> 0]

IsNaN(a) == a.den = 0

FAdd(a, b) ==
    IF IsNaN(a) \/ IsNaN(b) THEN NaN ELSE Frac(a.num * b.den + b.num * a.den, a.den * b.den)

FMul(a, b) == IF IsNaN(a) \/ IsNaN(b) THEN NaN ELSE Frac(a.num * b.num, a.den * b.den)

\* a / k for a positive integer k
FDivInt(a, k) == IF IsNaN(a) THEN NaN ELSE Frac(a.num, a.den * k)

\* comparisons with NaN are false
FLt(a, b) == ~IsNaN(a) /\ ~IsNaN(b) /\ a.num * b.den < b.num * a.den

FLe(a, b) == ~IsNaN(a) /\ ~IsNaN(b) /\ a.num * b.den <= b.num * a.den

FGe(a, b) == FLe(b, a)

FGt(a, b) == FLt(b, a)

\* min(a, b) keeps a unless b < a; max(a, b) keeps a unless b > a
PyMin(a, b) == IF FLt(b, a) THEN b ELSE a

PyMax(a, b) == IF FGt(b, a) THEN b ELSE a

\* sum(values)
RECURSIVE FSum(_)
FSum(values) == IF values = <<>> THEN Num(0) ELSE FAdd(FSum(SubSeq(values, 1, Len(values) - 1)), values[Len(values)])

\* round(a) for a >= 0: to the nearest integer, halves to the even one
RoundHalfEven(a) ==
    LET q == a.num \div a.den
        r == a.num % a.den
    IN  IF 2 * r < a.den THEN q
        ELSE IF 2 * r > a.den THEN q + 1
        ELSE IF q % 2 = 0 THEN q ELSE q + 1

\* seq[:n]
Take(seq, n) == SubSeq(seq, 1, IF Len(seq) < n THEN Len(seq) ELSE n)

Abs(i) == IF i < 0 THEN -i ELSE i

-----------------------------------------------------------------------------
(* Prediction engine, app.py predict_liking_percentage *)

\* the normalize_title local to predict_liking_percentage
app_normalize_title(title) ==
    IF title = <<>> THEN <<>>
    ELSE Strip(RemoveYear(RemoveChars(Strip(Lower(title)), {",", ":", "'", "\""})))

\* [s.strip() for s in recommended_because.split(',') if s.strip()]
RECURSIVE StripNonEmpty(_)
StripNonEmpty(parts) ==
    IF parts = <<>> THEN <<>>
    ELSE IF Strip(Head(parts)) # <<>> THEN <<Strip(Head(parts))>> \o StripNonEmpty(Tail(parts))
    ELSE StripNonEmpty(Tail(parts))

source_movies_of(m) ==
    IF m.recommended_because # <<>> THEN StripNonEmpty(Split(m.recommended_because, <<",">>))
    ELSE <<>>

\* index of the first history row whose normalized title is norm, 0 if none
RECURSIVE FirstFilmFrom(_, _, _)
FirstFilmFrom(user_films, norm, i) ==
    IF i > Len(user_films) THEN 0
    ELSE IF app_normalize_title(Strip(user_films[i].film_title)) = norm THEN i
    ELSE FirstFilmFrom(user_films, norm, i + 1)

FirstFilm(user_films, norm) == FirstFilmFrom(user_films, norm, 1)

\* source_matches: (rating, title) of the first history row of each source movie
RECURSIVE source_matches_of(_, _)
source_matches_of(user_films, source_movies) ==
    IF source_movies = <<>> THEN <<>>
    ELSE LET i == FirstFilm(user_films, app_normalize_title(Head(source_movies)))
             rest == source_matches_of(user_films, Tail(source_movies))
         IN  IF i > 0
             THEN <<[rating |-> user_films[i].rating,
                     title |-> Strip(user_films[i].film_title)]>> \o rest
             ELSE rest

\* year_matches: (rating, title) of the history rows within 5 years of the item
RECURSIVE year_matches_of(_, _)
year_matches_of(user_films, movie_year) ==
    IF user_films = <<>> \/ ~(movie_year > 0) THEN <<>>
    ELSE LET film == Head(user_films)
             digits == SearchYear(film.film_title)
             rest == year_matches_of(Tail(user_films), movie_year)
         IN  IF digits # <<>> /\ Abs(ParseInt(digits) - movie_year) <= 5
             THEN <<[rating |-> film.rating, title |-> film.film_title]>> \o rest
             ELSE rest

RatingsOf(matches) == [i \in 1..Len(matches) |-> matches[i].rating]

TitlesOf(matches) == [i \in 1..Len(matches) |-> matches[i].title]

\* tier 1: no history table
tier_no_data(m) ==
    [percent |-> PyMax(Num(35), PyMin(Num(45), FMul(FDivInt(m.tmdb_rating, 10), Num(100)))),
     matches |-> <<>>]

\* tier 2: the item itself is in the history
tier_watched(film) ==
    [percent |-> FMul(FDivInt(film.rating, 5), Num(100)),
     matches |-> <<Strip(film.film_title)>>]

\* tier 3: the source movies of the recommendation are in the history
tier_source(m, source_matches) ==
    LET avg_source_rating == FDivInt(FSum(RatingsOf(source_matches)), Len(source_matches))
        source_percent == FMul(FDivInt(avg_source_rating, 5), Num(100))
        tmdb_base == FMul(FDivInt(m.tmdb_rating, 10), Num(100))
        prediction == FAdd(FMul(source_percent, Frac(7, 10)), FMul(tmdb_base, Frac(3, 10)))
        capped ==
            IF FGe(avg_source_rating, Frac(9, 2)) THEN PyMin(Num(85), prediction)
            ELSE IF FGe(avg_source_rating, Num(4)) THEN PyMin(Num(75), prediction)
            ELSE IF FLe(avg_source_rating, Frac(5, 2))
                 THEN PyMax(Num(25), PyMin(Num(45), prediction))
            ELSE prediction
    IN  [percent |-> PyMax(Num(25), PyMin(Num(85), capped)),
         matches |-> TitlesOf(Take(source_matches, 3))]

\* tier 4: at least 3 history rows from years close to the item's
tier_year(m, year_matches) ==
    LET avg_year_rating == FDivInt(FSum(RatingsOf(year_matches)), Len(year_matches))
        year_percent == FMul(FDivInt(avg_year_rating, 5), Num(100))
        tmdb_base == FMul(FDivInt(m.tmdb_rating, 10), Num(100))
        prediction == FAdd(FMul(year_percent, Frac(1, 2)), FMul(tmdb_base, Frac(1, 2)))
    IN  [percent |-> PyMax(Num(30), PyMin(Num(70), prediction)),
         matches |-> TitlesOf(Take(year_matches, 3))]

\* A variant of tier 5 that scales the catalog rating instead of stepping.
tier_no_match_scaled(m) ==
    [percent |-> PyMax(Num(25), PyMin(Num(40), FMul(m.tmdb_rating, Num(5)))), matches |-> <<>>]

\* tier 5: no evidence
tier_no_match(m) ==
    LET prediction ==
            IF FGe(m.tmdb_rating, Frac(17, 2)) THEN Num(40)
            ELSE IF FGe(m.tmdb_rating, Frac(15, 2)) THEN Num(38)
            ELSE IF FGe(m.tmdb_rating, Num(7)) THEN Num(35)
            ELSE IF FGe(m.tmdb_rating, Num(6)) THEN Num(32)
            ELSE Num(28)
    IN  [percent |-> PyMax(Num(25), PyMin(Num(40), prediction)), matches |-> <<>>]

\* A variant that consults the provenance tier before the exact title match.
predict_for_user_source_first(m, user_films) ==
    IF user_films = <<>> THEN tier_no_data(m)
    ELSE LET source_matches == source_matches_of(user_films, source_movies_of(m))
             i == FirstFilm(user_films, app_normalize_title(Strip(m.title)))
         IN  IF source_matches # <<>> THEN tier_source(m, source_matches)
             ELSE IF i > 0 THEN tier_watched(user_films[i])
             ELSE tier_no_match(m)

\* A variant whose no-data tier forgets the upper clamp.
predict_for_user_unclamped(m, user_films) ==
    IF user_films = <<>>
    THEN [percent |-> PyMax(Num(35), FMul(FDivInt(m.tmdb_rating, 10), Num(100))),
          matches |-> <<>>]
    ELSE tier_no_match(m)

predict_for_user(m, user_films) ==
    IF user_films = <<>> THEN tier_no_data(m)
    ELSE LET i == FirstFilm(user_films, app_normalize_title(Strip(m.title)))
             source_matches == source_matches_of(user_films, source_movies_of(m))
             year_matches == year_matches_of(user_films, m.year)
         IN  IF i > 0 THEN tier_watched(user_films[i])
             ELSE IF source_matches # <<>> THEN tier_source(m, source_matches)
             ELSE IF Len(year_matches) >= 3 THEN tier_year(m, year_matches)
             ELSE tier_no_match(m)

-----------------------------------------------------------------------------
(* Reason generator, app.py generate_prediction_reasons *)

YouLiked == <<"Y", "o", "u", " ", "l", "i", "k", "e", "d", " ">>

YouRated == <<"Y", "o", "u", " ", "r", "a", "t", "e", "d", " ">>

LowSuffix == <<" ", "l", "o", "w">>

CommaSpace == <<",", " ">>

NoSimilarMovies == <<"N", "o", " ", "s", "i", "m", "i", "l", "a", "r", " ", "m", "o", "v", "i", "e", "s", " ", "i", "n", " ", "y", "o", "u", "r", " ", "h", "i", "s", "t", "o", "r", "y">>

BasedOnMovieRating == <<"B", "a", "s", "e", "d", " ", "o", "n", " ", "m", "o", "v", "i", "e", " ", "r", "a", "t", "i", "n", "g">>

\* the clean_title local to generate_prediction_reasons
clean_title(title) == IF title = <<>> THEN <<>> ELSE Strip(RemoveYear(title))

RECURSIVE FirstCleanFrom(_, _, _)
FirstCleanFrom(user_films, clean, i) ==
    IF i > Len(user_films) THEN 0
    ELSE IF clean_title(user_films[i].film_title) = clean THEN i
    ELSE FirstCleanFrom(user_films, clean, i + 1)

\* matched_with_ratings before it is sorted
RECURSIVE matched_with_ratings_of(_, _)
matched_with_ratings_of(user_films, genre_matches) ==
    IF genre_matches = <<>> THEN <<>>
    ELSE LET i == FirstCleanFrom(user_films, clean_title(Head(genre_matches)), 1)
             rest == matched_with_ratings_of(user_films, Tail(genre_matches))
         IN  IF i > 0
             THEN <<[title |-> Head(genre_matches), rating |-> user_films[i].rating]>> \o rest
             ELSE rest

\* stable insertion of index i into a sequence of indices ordered by key,
\* highest first: i goes behind every index whose key is not smaller
RECURSIVE InsertByKey(_, _, _)
InsertByKey(sorted, i, keys) ==
    IF sorted = <<>> THEN <<i>>
    ELSE IF FGe(keys[Head(sorted)], keys[i]) THEN <<Head(sorted)>> \o InsertByKey(Tail(sorted), i, keys)
    ELSE <<i>> \o sorted

\* the indices 1..n in stable descending order of their keys
RECURSIVE SortedIndices(_, _)
SortedIndices(keys, n) ==
    IF n = 0 THEN <<>> ELSE InsertByKey(SortedIndices(keys, n - 1), n, keys)

\* sorted(rows, key=..., reverse=True) and list.sort(key=..., reverse=True),
\* keys[i] being the key of rows[i]: stable
StableSortDesc(rows, keys) ==
    LET order == SortedIndices(keys, Len(rows))
    IN  [k \in 1..Len(rows) |-> rows[order[k]]]

SortByRatingDesc(rows) == StableSortDesc(rows, [i \in 1..Len(rows) |-> rows[i].rating])

Orderings(rows) ==
    {[i \in 1..Len(rows) |-> rows[p[i]]] :
        p \in {q \in [1..Len(rows) -> 1..Len(rows)] : \A i, j \in 1..Len(rows) : i # j => q[i] # q[j]}}

\* list.sort(key=rating, reverse=True): stable, highest first.  With a NaN key the
\* comparisons are no order and the result is whatever the sort leaves: any order.
SortOutcomes(rows) ==
    IF \E i \in 1..Len(rows) : IsNaN(rows[i].rating)
    THEN Orderings(rows)
    ELSE {SortByRatingDesc(rows)}

\* [t for t, r in rows if r >= 4.0] and [t for t, r in rows if r <= 2.5]
RECURSIVE LikedOf(_)
LikedOf(rows) ==
    IF rows = <<>> THEN <<>>
    ELSE IF FGe(Head(rows).rating, Num(4)) THEN <<Head(rows).title>> \o LikedOf(Tail(rows))
    ELSE LikedOf(Tail(rows))

RECURSIVE DislikedOf(_)
DislikedOf(rows) ==
    IF rows = <<>> THEN <<>>
    ELSE IF FLe(Head(rows).rating, Frac(5, 2)) THEN <<Head(rows).title>> \o DislikedOf(Tail(rows))
    ELSE DislikedOf(Tail(rows))

\* A variant that shows the liked evidence from a percent of 50.
first_reasons_liked_from_fifty(percent, liked, disliked) ==
    (IF FGe(percent, Num(50)) /\ liked # <<>>
     THEN <<YouLiked \o Join(Take(liked, 3), CommaSpace)>>
     ELSE <<>>)
    \o
    (IF FLe(percent, Num(50)) /\ disliked # <<>>
     THEN <<YouRated \o Join(Take(disliked, 2), CommaSpace) \o LowSuffix>>
     ELSE <<>>)

\* the "You liked ..." / "You rated ... low" reasons of the matched movies
first_reasons(percent, liked, disliked) ==
    (IF FGe(percent, Num(60)) /\ liked # <<>>
     THEN <<YouLiked \o Join(Take(liked, 3), CommaSpace)>>
     ELSE <<>>)
    \o
    (IF FLe(percent, Num(50)) /\ disliked # <<>>
     THEN <<YouRated \o Join(Take(disliked, 2), CommaSpace) \o LowSuffix>>
     ELSE <<>>)

\* the titles read back out of the reasons built so far
RECURSIVE used_titles_of(_)
used_titles_of(reasons) ==
    IF reasons = <<>> THEN {}
    ELSE LET r == Head(reasons)
             titles ==
                 IF Contains(r, <<"Y", "o", "u", " ", "l", "i", "k", "e", "d">>)
                 THEN Split(Replace(r, YouLiked, <<>>), CommaSpace)
                 ELSE IF Contains(r, <<"Y", "o", "u", " ", "r", "a", "t", "e", "d">>)
                 THEN Split(Replace(Replace(r, YouRated, <<>>), LowSuffix, <<>>), CommaSpace)
                 ELSE <<>>
         IN  {titles[i] : i \in 1..Len(titles)} \cup used_titles_of(Tail(reasons))

\* the loop adding more reasons from the matched movies
RECURSIVE add_more(_, _, _, _)
add_more(rows, percent, used_titles, reasons) ==
    IF rows = <<>> THEN reasons
    ELSE LET title == Head(rows).title
             rating == Head(rows).rating
             next ==
                 IF FGe(percent, Num(60)) /\ FGe(rating, Num(4))
                 THEN Append(reasons, YouLiked \o title)
                 ELSE IF FLe(percent, Num(50)) /\ FLe(rating, Frac(5, 2))
                 THEN Append(reasons, YouRated \o title \o LowSuffix)
                 ELSE reasons
         IN  IF title \in used_titles THEN add_more(Tail(rows), percent, used_titles, reasons)
             ELSE IF Len(next) >= 3 THEN next
             ELSE add_more(Tail(rows), percent, used_titles, next)

\* user_films[user_films['rating'] >= 4.0].nlargest(2, 'rating'): ties keep table order
RECURSIVE LovedRows(_)
LovedRows(user_films) ==
    IF user_films = <<>> THEN <<>>
    ELSE IF FGe(Head(user_films).rating, Num(4))
         THEN <<[title |-> Head(user_films).film_title, rating |-> Head(user_films).rating]>>
                  \o LovedRows(Tail(user_films))
    ELSE LovedRows(Tail(user_films))

top_loved_titles(user_films) ==
    LET loved == Take(SortByRatingDesc(LovedRows(user_films)), 2)
    IN  [i \in 1..Len(loved) |-> clean_title(loved[i].title)]

\* the honest explanation or the top-rated fallback
fallback_reasons(user_films, percent, reasons) ==
    IF Len(reasons) >= 3 THEN reasons
    ELSE IF FLe(percent, Num(45)) THEN Append(reasons, NoSimilarMovies)
    ELSE IF top_loved_titles(user_films) # <<>>
         THEN Append(reasons, YouLiked \o Join(top_loved_titles(user_films), CommaSpace))
    ELSE reasons

\* while len(reasons) < 3: reasons.append("Based on movie rating")
RECURSIVE pad_reasons(_)
pad_reasons(reasons) ==
    IF Len(reasons) < 3 THEN pad_reasons(Append(reasons, BasedOnMovieRating)) ELSE reasons

\* list(dict.fromkeys(reasons)): first occurrences, in order
RECURSIVE Dedup(_)
Dedup(seq) ==
    IF seq = <<>> THEN <<>>
    ELSE LET front == Dedup(SubSeq(seq, 1, Len(seq) - 1))
             last == seq[Len(seq)]
         IN  IF \E i \in 1..Len(front) : front[i] = last THEN front ELSE Append(front, last)

\* generate_prediction_reasons, given matched_with_ratings as the sort left it
generate_prediction_reasons(user_films, calculated_percent, matched_with_ratings) ==
    LET liked == LikedOf(matched_with_ratings)
        disliked == DislikedOf(matched_with_ratings)
        first == IF matched_with_ratings # <<>>
                 THEN first_reasons(calculated_percent, liked, disliked)
                 ELSE <<>>
        more == IF matched_with_ratings # <<>> /\ Len(first) < 3
                THEN add_more(matched_with_ratings, calculated_percent,
                              used_titles_of(first), first)
                ELSE first
    IN  Take(Dedup(pad_reasons(fallback_reasons(user_films, calculated_percent, more))), 3)

-----------------------------------------------------------------------------
(* Specification SpecPredict: predict_liking_percentage on bounded inputs *)

MaxHistory == 3

ItemTitles == { <<"U", "p", " ", "(", "1", "9", "9", "5", ")">>, <<"H", "e", "r">> }

HistoryTitles == { <<"u", "p", " ", "(", "1", "9", "9", "5", ")">>, <<"I", "t", " ", "(", "1", "9", "9", "0", ")">> }

\* star ratings of history rows: unrated, 2.0, 4.5
HistoryRatings == { NaN, Num(2), Frac(9, 2) }

\* catalog ratings: missing, 3.0, 4.0, 9.0
CatalogRatings == { NaN, Num(3), Num(4), Num(9) }

ItemYears == { 0, 1995 }

\* recommended_because: none, or "It (1990), up (1995)"
Provenances == { <<>>, <<"I", "t", " ", "(", "1", "9", "9", "0", ")", ",", " ", "u", "p", " ", "(", "1", "9", "9", "5", ")">> }

FilmRows == [film_title : HistoryTitles, rating : HistoryRatings]

Histories == UNION {[1..n -> FilmRows] : n \in 0..MaxHistory}

\* the second user's histories
SaliHistories ==
    { <<>>, <<[film_title |-> <<"U", "p", " ", "(", "1", "9", "9", "5", ")">>, rating |-> Num(5)]>> }

Movies ==
    [title : ItemTitles, tmdb_rating : CatalogRatings, year : ItemYears,
     recommended_because : Provenances]

\* the source titles behind each recommended_because of Provenances
ItemSources ==
    { <<>>, << <<"I", "t", " ", "(", "1", "9", "9", "0", ")">>, <<"u", "p", " ", "(", "1", "9", "9", "5", ")">> >> }

PredictInit ==
    /\ movie \in Movies
    /\ item_sources \in {s \in ItemSources : Join(s, CommaSpace) = movie.recommended_because}
    /\ gorg_films \in Histories
    /\ sali_films \in SaliHistories
    /\ gorg_pred = <<>>
    /\ sali_pred = <<>>
    /\ result = <<>>
    /\ pstatus = "input"
    /\ TitleParked
    /\ LovedParked
    /\ AggParked
    /\ PipeParked
    /\ AdmitParked
    /\ ScrapeParked
    /\ LoadParked
    /\ FileParked
    /\ GateParked
    /\ TvParked

\* predict_liking_percentage(movie, gorg_films, sali_films); round() of a NaN
\* percent raises ValueError
Predict ==
    /\ pstatus = "input"
    /\ \E g \in {predict_for_user(movie, gorg_films)}, s \in {predict_for_user(movie, sali_films)} :
       \E gm \in SortOutcomes(matched_with_ratings_of(gorg_films, g.matches)),
          sm \in SortOutcomes(matched_with_ratings_of(sali_films, s.matches)) :
       \E gorg_reasons \in {generate_prediction_reasons(gorg_films, g.percent, gm)},
          sali_reasons \in {generate_prediction_reasons(sali_films, s.percent, sm)} :
          /\ gorg_pred' = [percent |-> g.percent, matches |-> g.matches,
                           reasons |-> gorg_reasons]
          /\ sali_pred' = [percent |-> s.percent, matches |-> s.matches,
                           reasons |-> sali_reasons]
          /\ IF IsNaN(g.percent) \/ IsNaN(s.percent)
             THEN /\ result' = <<>>
                  /\ pstatus' = "raised"
             ELSE /\ result' = [sali_percent |-> RoundHalfEven(s.percent),
                                gorg_percent |-> RoundHalfEven(g.percent),
                                sali_reasons |-> sali_reasons,
                                gorg_reasons |-> gorg_reasons]
                  /\ pstatus' = "returned"
    /\ UNCHANGED <<movie, item_sources, filmVars, titleVars, lovedVars, aggVars, pipeVars, admitVars, scrapeVars, loadVars, fileVars, gateVars, tvVars>>

PredictNext == Predict

SpecPredict == PredictInit /\ [][PredictNext]_vars

\* C3: the call returns, and each user's percent is an integer in [0,100].
C3_PercentInRange ==
    pstatus \in {"returned", "raised"} =>
        /\ pstatus = "returned"
        /\ result.gorg_percent \in 0..100
        /\ result.sali_percent \in 0..100

\* C5: every reason list has exactly 3 entries, all non-empty, no two equal.
ThreeDistinctReasons(reasons) ==
    /\ Len(reasons) = 3
    /\ \A i \in 1..Len(reasons) : reasons[i] # <<>>
    /\ \A i, j \in 1..Len(reasons) : i # j => reasons[i] # reasons[j]

C5_ExactlyThreeReasons ==
    pstatus \in {"returned", "raised"} =>
        /\ ThreeDistinctReasons(gorg_pred.reasons)
        /\ ThreeDistinctReasons(sali_pred.reasons)

\* the history rows whose normalized title is the item's normalized title
MatchingRows(user_films, m) ==
    {i \in 1..Len(user_films) :
        app_normalize_title(Strip(user_films[i].film_title)) = app_normalize_title(Strip(m.title))}

FirstOf(indices) == CHOOSE i \in indices : \A j \in indices : i <= j

\* C4: when the item's normalized title is in the history (first such row, rated),
\* the percent is rating / 5 x 100 and the evidence is that one history title,
\* whatever provenance or year-proximity evidence is present.
TierTwoWins(user_films, pred) ==
    MatchingRows(user_films, movie) # {} =>
        LET film == user_films[FirstOf(MatchingRows(user_films, movie))]
        IN  ~IsNaN(film.rating) =>
                /\ pred.percent = Frac(film.rating.num * 100, film.rating.den * 5)
                /\ pred.matches = <<Strip(film.film_title)>>

C4_WatchedTierWins ==
    pstatus \in {"returned", "raised"} =>
        /\ TierTwoWins(gorg_films, gorg_pred)
        /\ TierTwoWins(sali_films, sali_pred)

\* a watched, rated item that also has matched source movies and three history
\* rows from nearby years
C4_Witness ==
    /\ pstatus = "returned"
    /\ MatchingRows(gorg_films, movie) # {}
    /\ source_matches_of(gorg_films, source_movies_of(movie)) # <<>>
    /\ Len(year_matches_of(gorg_films, movie.year)) >= 3
    /\ result.gorg_percent = 90
    /\ gorg_pred.matches = << <<"u", "p", " ", "(", "1", "9", "9", "5", ")">> >>
    /\ result.sali_percent = 100

\* clamp(p, lo, hi) of a number p
Clamp(p, lo, hi) == IF FLt(p, Num(lo)) THEN Num(lo) ELSE IF FGt(p, Num(hi)) THEN Num(hi) ELSE p

NoDataTier(m, pred) ==
    /\ pred.matches = <<>>
    /\ FLe(Num(35), pred.percent) /\ FLe(pred.percent, Num(45))
    /\ ~IsNaN(m.tmdb_rating) =>
           pred.percent = Clamp(Frac(m.tmdb_rating.num * 100, m.tmdb_rating.den * 10), 35, 45)

\* a user with no rated film at all: no rows, or only unrated rows
NoRatedFilms(user_films) == \A i \in 1..Len(user_films) : IsNaN(user_films[i].rating)

\* C9 as stated: a user with no rated films at all gets
\* clamp(item_rating / 10 x 100, 35, 45) and no evidence.
C9_NoRatedFilmsTier ==
    pstatus \in {"returned", "raised"} =>
        /\ NoRatedFilms(gorg_films) => NoDataTier(movie, gorg_pred)
        /\ NoRatedFilms(sali_films) => NoDataTier(movie, sali_pred)

\* C9 amended: a user whose history table has no rows gets
\* clamp(item_rating / 10 x 100, 35, 45), in [35,45], and no evidence.
C9_EmptyHistoryTier ==
    pstatus \in {"returned", "raised"} =>
        /\ gorg_films = <<>> => NoDataTier(movie, gorg_pred)
        /\ sali_films = <<>> => NoDataTier(movie, sali_pred)

C9_Witness ==
    /\ pstatus = "returned"
    /\ gorg_films = <<>>
    /\ movie.tmdb_rating = Num(9)
    /\ result.gorg_percent = 45
    /\ gorg_pred.matches = <<>>

-----------------------------------------------------------------------------
(* Both-loved relation: movie_recommender_improved.py 226-247, app.py index *)

\* matching.iloc[0], flags marking the rows of matching: index of the first
\* TRUE of flags from position i on, 0 if matching is empty
RECURSIVE FirstTrueFrom(_, _)
FirstTrueFrom(flags, i) ==
    IF i > Len(flags) THEN 0
    ELSE IF flags[i] THEN i
    ELSE FirstTrueFrom(flags, i + 1)

\* the loop building both_loved, in table order (recommender)
RECURSIVE both_loved_rows(_, _)
both_loved_rows(gorg_df, sali_df) ==
    IF gorg_df = <<>> THEN <<>>
    ELSE LET gorg_movie == gorg_df[Len(gorg_df)]
             front == both_loved_rows(SubSeq(gorg_df, 1, Len(gorg_df) - 1), sali_df)
             gorg_title_norm == normalize_title(gorg_movie.film_title)
             j == FirstTrueFrom([k \in 1..Len(sali_df) |->
                                    normalize_title(sali_df[k].film_title) = gorg_title_norm], 1)
         IN  IF FGe(gorg_movie.rating, Num(4)) /\ j > 0 /\ FGe(sali_df[j].rating, Num(4))
             THEN Append(front, [title |-> gorg_movie.film_title,
                                 gorg_rating |-> gorg_movie.rating,
                                 sali_rating |-> sali_df[j].rating,
                                 avg_rating |-> FDivInt(FAdd(gorg_movie.rating, sali_df[j].rating), 2)])
             ELSE front

\* both_loved after both_loved.sort(key=avg_rating, reverse=True)
find_both_loved(gorg_df, sali_df) ==
    LET rows == both_loved_rows(gorg_df, sali_df)
    IN  StableSortDesc(rows, [i \in 1..Len(rows) |-> rows[i].avg_rating])

\* the loop building both_loved in the index route: titles compared lowercased
RECURSIVE index_both_loved_rows(_, _)
index_both_loved_rows(gorg_df, sali_df) ==
    IF gorg_df = <<>> \/ sali_df = <<>> THEN <<>>
    ELSE LET gorg_movie == gorg_df[Len(gorg_df)]
             front == index_both_loved_rows(SubSeq(gorg_df, 1, Len(gorg_df) - 1), sali_df)
             gorg_title_lower == Lower(gorg_movie.film_title)
             j == FirstTrueFrom([k \in 1..Len(sali_df) |->
                                    Lower(sali_df[k].film_title) = gorg_title_lower], 1)
         IN  IF FGe(gorg_movie.rating, Num(4)) /\ j > 0 /\ FGe(sali_df[j].rating, Num(4))
             THEN Append(front, [title |-> gorg_movie.film_title,
                                 gorg_rating |-> gorg_movie.rating,
                                 sali_rating |-> sali_df[j].rating])
             ELSE front

\* both_loved_sorted of the index route
index_find_both_loved(gorg_df, sali_df) ==
    LET rows == index_both_loved_rows(gorg_df, sali_df)
    IN  StableSortDesc(rows, [i \in 1..Len(rows) |->
                                 FDivInt(FAdd(rows[i].gorg_rating, rows[i].sali_rating), 2)])

-----------------------------------------------------------------------------
(* Specification SpecLoved: the both-loved relation of bounded histories *)

MaxLovedRows == 2

LovedTitles == { <<"P", "i", " ", "(", "1", "9", "9", "8", ")">>, <<"P", "I", " ", "(", "2", "0", "2", "0", ")">>, <<"U", "p">> }

\* star ratings: unrated, 3.0, 4.0, 5.0
LovedRatings == { NaN, Num(3), Num(4), Num(5) }

LovedTables ==
    UNION {[1..n -> [film_title : LovedTitles, rating : LovedRatings]] : n \in 0..MaxLovedRows}

LovedInit ==
    /\ gorg_films \in LovedTables
    /\ sali_films \in LovedTables
    /\ both_loved = <<>>
    /\ index_both_loved = <<>>
    /\ lphase = "loaded"
    /\ TitleParked
    /\ PredParked
    /\ AggParked
    /\ PipeParked
    /\ AdmitParked
    /\ ScrapeParked
    /\ LoadParked
    /\ FileParked
    /\ GateParked
    /\ TvParked

\* the recommender finds the movies both loved
FindBothLoved ==
    /\ lphase = "loaded"
    /\ both_loved' = find_both_loved(gorg_films, sali_films)
    /\ lphase' = "found"
    /\ UNCHANGED <<index_both_loved, filmVars, titleVars, predVars, aggVars, pipeVars, admitVars, scrapeVars, loadVars, fileVars, gateVars, tvVars>>

\* the index route finds the movies both loved
IndexBothLoved ==
    /\ lphase = "found"
    /\ index_both_loved' = index_find_both_loved(gorg_films, sali_films)
    /\ lphase' = "shown"
    /\ UNCHANGED <<both_loved, filmVars, titleVars, predVars, aggVars, pipeVars, admitVars, scrapeVars, loadVars, fileVars, gateVars, tvVars>>

LovedNext == FindBothLoved \/ IndexBothLoved

SpecLoved == LovedInit /\ [][LovedNext]_vars

\* user A has a row titled t rated >= 4.0 and user B a row with the same
\* normalized title rated >= 4.0
LovedByBoth(t) ==
    /\ \E i \in 1..Len(gorg_films) :
          gorg_films[i].film_title = t /\ FGe(gorg_films[i].rating, Num(4))
    /\ \E j \in 1..Len(sali_films) :
          /\ normalize_title(sali_films[j].film_title) = normalize_title(t)
          /\ FGe(sali_films[j].rating, Num(4))

\* C10: the relation holds exactly the titles loved by both, each pair with both
\* ratings and their average, in descending order of the average.
C10_BothLovedRelation ==
    lphase \in {"found", "shown"} =>
        /\ \A t \in LovedTitles :
              (\E k \in 1..Len(both_loved) : both_loved[k].title = t) <=> LovedByBoth(t)
        /\ \A k \in 1..Len(both_loved) :
              /\ FGe(both_loved[k].gorg_rating, Num(4))
              /\ FGe(both_loved[k].sali_rating, Num(4))
              /\ both_loved[k].avg_rating =
                     FDivInt(FAdd(both_loved[k].gorg_rating, both_loved[k].sali_rating), 2)
        /\ \A k \in 1..(Len(both_loved) - 1) :
              FGe(both_loved[k].avg_rating, both_loved[k + 1].avg_rating)

-----------------------------------------------------------------------------
(* Recommendation aggregation and ranking: movie_recommender_improved.py 255-424 *)

\* vote_average is a float out of 10, kept as an exact fraction; the catalog
\* values used below are binary fractions, so count * 2 + vote_average is exact
\* in double arithmetic as well.
MIN_TMDB_RATING == Num(6)

MIN_VOTE_COUNT == 500

MIN_YEAR == 1970

MAX_YEAR == 2026

SUPERHERO_GENRES == {28, 878, 12}

SUPERHERO_KEYWORDS ==
    { <<"s", "u", "p", "e", "r", "h", "e", "r", "o">>, <<"s", "p", "i", "d", "e", "r", "-", "m", "a", "n">>, <<"b", "a", "t", "m", "a", "n">>, <<"s", "u", "p", "e", "r", "m", "a", "n">>, <<"i", "r", "o", "n", " ", "m", "a", "n">>,
      <<"c", "a", "p", "t", "a", "i", "n", " ", "a", "m", "e", "r", "i", "c", "a">>, <<"a", "v", "e", "n", "g", "e", "r", "s">>, <<"x", "-", "m", "e", "n">>, <<"g", "u", "a", "r", "d", "i", "a", "n", "s", " ", "o", "f", " ", "t", "h", "e", " ", "g", "a", "l", "a", "x", "y">>,
      <<"m", "e", "n", " ", "i", "n", " ", "b", "l", "a", "c", "k">>, <<"m", "a", "r", "v", "e", "l">>, <<"d", "c">>, <<"c", "o", "m", "i", "c">>, <<"c", "o", "m", "i", "c", "s">>, <<"s", "u", "p", "e", "r", "h", "e", "r", "o", "e", "s">>,
      <<"w", "o", "l", "v", "e", "r", "i", "n", "e">>, <<"h", "u", "l", "k">>, <<"t", "h", "o", "r">>, <<"a", "n", "t", "-", "m", "a", "n">>, <<"b", "l", "a", "c", "k", " ", "w", "i", "d", "o", "w">>,
      <<"w", "o", "n", "d", "e", "r", " ", "w", "o", "m", "a", "n">>, <<"f", "l", "a", "s", "h">>, <<"a", "q", "u", "a", "m", "a", "n">>, <<"g", "r", "e", "e", "n", " ", "l", "a", "n", "t", "e", "r", "n">>, <<"d", "e", "a", "d", "p", "o", "o", "l">>,
      <<"v", "e", "n", "o", "m">>, <<"d", "o", "c", "t", "o", "r", " ", "s", "t", "r", "a", "n", "g", "e">>, <<"b", "l", "a", "c", "k", " ", "p", "a", "n", "t", "h", "e", "r">>, <<"s", "h", "a", "z", "a", "m">> }

PRIORITY_GENRES == {9648, 18, 53}

\* int(release_date[:4]) if release_date and len(release_date) >= 4 else 0
year_of(release_date) ==
    IF Len(release_date) >= 4 THEN ParseInt(Take(release_date, 4)) ELSE 0

\* A variant that looks at the title keywords only.
is_superhero_keywords_only(suggestion) ==
    \E keyword \in SUPERHERO_KEYWORDS : Contains(Lower(suggestion.title), keyword)

is_superhero(suggestion) ==
    LET movie_genres == suggestion.genre_ids
        title_lower == Lower(suggestion.title)
        action_sci_fi_count ==
            Cardinality({i \in 1..Len(movie_genres) : movie_genres[i] \in SUPERHERO_GENRES})
    IN  \/ action_sci_fi_count >= 2 /\ Len(movie_genres) <= 4
        \/ \E keyword \in SUPERHERO_KEYWORDS : Contains(title_lower, keyword)

is_priority(suggestion) ==
    \E i \in 1..Len(suggestion.genre_ids) : suggestion.genre_ids[i] \in PRIORITY_GENRES

\* A variant with one threshold for every genre.
rating_threshold_uniform(suggestion) == MIN_TMDB_RATING

rating_threshold(suggestion) == IF is_priority(suggestion) THEN Frac(11, 2) ELSE MIN_TMDB_RATING

\* 3.0 for mystery/drama/thriller, 1.0 otherwise: whole floats, kept as integers
weight_uniform(suggestion) == 1

weight(suggestion) == IF is_priority(suggestion) THEN 3 ELSE 1

\* position of the entry keyed by title in the dictionary's insertion order, 0 if none
KeyPos(recs, title) ==
    IF \E k \in 1..Len(recs) : recs[k].title = title
    THEN CHOOSE k \in 1..Len(recs) : recs[k].title = title
    ELSE 0

\* A variant that stores the tmdb_data of every admitted occurrence.
accumulate_overwriting(recs, suggestion, loved_title) ==
    LET k == KeyPos(recs, suggestion.title)
    IN  IF k = 0
        THEN Append(recs, [title |-> suggestion.title,
                           count |-> weight(suggestion),
                           sources |-> <<loved_title>>,
                           tmdb_data |-> <<suggestion>>])
        ELSE [recs EXCEPT ![k] =
                 [title |-> @.title,
                  count |-> @.count + weight(suggestion),
                  sources |-> Append(@.sources, loved_title),
                  tmdb_data |-> <<suggestion>>]]

\* recommendations[similar_title]: count += weight, sources.append, tmdb_data
\* stored only when none is stored yet; a missing key is created at the end
accumulate(recs, suggestion, loved_title) ==
    LET k == KeyPos(recs, suggestion.title)
    IN  IF k = 0
        THEN Append(recs, [title |-> suggestion.title,
                           count |-> weight(suggestion),
                           sources |-> <<loved_title>>,
                           tmdb_data |-> <<suggestion>>])
        ELSE [recs EXCEPT ![k] =
                 [title |-> @.title,
                  count |-> @.count + weight(suggestion),
                  sources |-> Append(@.sources, loved_title),
                  tmdb_data |-> IF @.tmdb_data = <<>> THEN <<suggestion>> ELSE @.tmdb_data]]

\* A variant of the admission test that leaves out the watched check.
admitted_watched_unchecked(suggestion, loved_title, gorg_df, sali_df) ==
    LET tmdb_rating == suggestion.vote_average
        year == year_of(suggestion.release_date)
    IN  /\ ~(is_superhero(suggestion) /\ FLt(tmdb_rating, Frac(17, 2)))
        /\ FGe(tmdb_rating, rating_threshold(suggestion))
        /\ suggestion.vote_count >= MIN_VOTE_COUNT
        /\ MIN_YEAR <= year /\ year <= MAX_YEAR

\* the admission test of one suggestion
admitted(suggestion, loved_title, gorg_df, sali_df) ==
    LET tmdb_rating == suggestion.vote_average
        year == year_of(suggestion.release_date)
    IN  /\ ~(is_superhero(suggestion) /\ FLt(tmdb_rating, Frac(17, 2)))
        /\ ~already_watched(suggestion.title, loved_title, watched_set(gorg_df),
                            watched_set(sali_df), all_watched_titles(gorg_df, sali_df))
        /\ FGe(tmdb_rating, rating_threshold(suggestion))
        /\ suggestion.vote_count >= MIN_VOTE_COUNT
        /\ MIN_YEAR <= year /\ year <= MAX_YEAR

\* one pass of the loop body over all_suggestions
process_suggestion(recs, suggestion, loved_title, gorg_df, sali_df) ==
    IF admitted(suggestion, loved_title, gorg_df, sali_df)
    THEN accumulate(recs, suggestion, loved_title)
    ELSE recs

\* score_recommendation: tmdb_data is <<>> for None
score_recommendation(rec_data) ==
    LET source_score == Num(rec_data.count * 2)
        rating_score == IF rec_data.tmdb_data # <<>>
                        THEN rec_data.tmdb_data[1].vote_average
                        ELSE Num(0)
    IN  FAdd(source_score, rating_score)

\* A variant of the sort that puts an entry in front of the entries it ties with.
RECURSIVE InsertBeforeTies(_, _, _)
InsertBeforeTies(sorted, i, keys) ==
    IF sorted = <<>> THEN <<i>>
    ELSE IF FGt(keys[Head(sorted)], keys[i]) THEN <<Head(sorted)>> \o InsertBeforeTies(Tail(sorted), i, keys)
    ELSE <<i>> \o sorted

RECURSIVE IndicesTiesReversed(_, _)
IndicesTiesReversed(keys, n) ==
    IF n = 0 THEN <<>> ELSE InsertBeforeTies(IndicesTiesReversed(keys, n - 1), n, keys)

rank_ties_reversed(recs) ==
    LET order == IndicesTiesReversed([i \in 1..Len(recs) |-> score_recommendation(recs[i])], Len(recs))
    IN  [k \in 1..Len(recs) |-> recs[order[k]]]

\* sorted(recommendations.items(), key=score, reverse=True)
rank(recs) == StableSortDesc(recs, [i \in 1..Len(recs) |-> score_recommendation(recs[i])])

\* str(n) for a non-negative integer
RECURSIVE IntStr(_)
IntStr(n) ==
    LET digit == <<"0", "1", "2", "3", "4", "5", "6", "7", "8", "9">>
    IN  IF n < 10 THEN <<digit[n + 1]>> ELSE IntStr(n \div 10) \o <<digit[(n % 10) + 1]>>

\* the final check of the emission loop against the watch sets
final_check_watched(title, gorg_watched, sali_watched) ==
    \E watched_title \in gorg_watched \cup sali_watched :
        normalize_title(title) = normalize_title(watched_title)

\* one dict appended to recommendations_list; overview, tmdb_id and poster_url
\* are copied from catalog fields that the candidates here do not carry
recommendation_row(rec) ==
    [title |-> rec.title,
     year |-> Take(rec.tmdb_data[1].release_date, 4),
     tmdb_rating |-> rec.tmdb_data[1].vote_average,
     recommended_because |-> Join(Take(rec.sources, 3), CommaSpace),
     recommendation_count |-> rec.count,
     genre_ids |-> Join([i \in 1..Len(rec.tmdb_data[1].genre_ids) |->
                            IntStr(rec.tmdb_data[1].genre_ids[i])], CommaSpace)]

\* A variant of the emission loop that walks all of sorted_recs.
build_recommendations_list_uncut(ranked, gorg_watched, sali_watched) ==
    LET kept == SelectSeq(ranked, LAMBDA rec :
                    /\ rec.tmdb_data # <<>>
                    /\ ~final_check_watched(rec.title, gorg_watched, sali_watched))
    IN  [k \in 1..Len(kept) |-> recommendation_row(kept[k])]

\* for title, data in sorted_recs[:25]: skip without tmdb_data, skip watched
build_recommendations_list(ranked, gorg_watched, sali_watched) ==
    LET top == Take(ranked, 25)
        kept == SelectSeq(top, LAMBDA rec :
                    /\ rec.tmdb_data # <<>>
                    /\ ~final_check_watched(rec.title, gorg_watched, sali_watched))
    IN  [k \in 1..Len(kept) |-> recommendation_row(kept[k])]

\* if recommendations_list: rec_df.to_csv(...)
save_recommendations(rows, previous) == IF rows # <<>> THEN rows ELSE previous

-----------------------------------------------------------------------------
(* Specification SpecAgg: one aggregation pass over suggestions that the
   catalog service returns, followed by the ranking *)

MaxSuggestions == 4

AggGorg ==
    << [film_title |-> <<"H", "e", "a", "t", " ", "(", "1", "9", "9", "5", ")">>, rating |-> Num(5)],
       [film_title |-> <<"A", "l", "i", "e", "n">>, rating |-> Num(4)],
       [film_title |-> <<"B", "i", "g">>, rating |-> Num(3)],
       [film_title |-> <<"T", "o", "y", " ", "S", "t", "o", "r", "y">>, rating |-> Num(3)] >>

AggSali ==
    { << [film_title |-> <<"h", "e", "a", "t">>, rating |-> Frac(9, 2)],
         [film_title |-> <<"A", "l", "i", "e", "n">>, rating |-> Num(5)] >>,
      << [film_title |-> <<"H", "e", "a", "t", " ", "(", "1", "9", "9", "5", ")">>, rating |-> Num(4)] >> }

\* what the catalog service can return in a recommendations or similar list
Catalog ==
    { [title |-> <<"S", "e", "v", "e", "n">>, vote_average |-> Num(8), vote_count |-> 900,
       release_date |-> <<"1", "9", "9", "5", "-", "0", "9", "-", "2", "2">>, genre_ids |-> <<80, 9648, 53>>],
      [title |-> <<"R", "u", "s", "h">>, vote_average |-> Num(7), vote_count |-> 600,
       release_date |-> <<"2", "0", "1", "3", "-", "0", "9", "-", "0", "2">>, genre_ids |-> <<35>>],
      [title |-> <<"R", "u", "s", "h">>, vote_average |-> Frac(13, 2), vote_count |-> 700,
       release_date |-> <<"1", "9", "9", "1", "-", "1", "2", "-", "2", "2">>, genre_ids |-> <<18>>],
      [title |-> <<"A", "r", "g", "o">>, vote_average |-> Num(7), vote_count |-> 800,
       release_date |-> <<"2", "0", "1", "2", "-", "1", "0", "-", "1", "1">>, genre_ids |-> <<36>>],
      [title |-> <<"T", "h", "o", "r">>, vote_average |-> Num(7), vote_count |-> 900,
       release_date |-> <<"2", "0", "1", "1", "-", "0", "4", "-", "2", "1">>, genre_ids |-> <<28, 12, 14>>],
      [title |-> <<"B", "i", "g">>, vote_average |-> Frac(15, 2), vote_count |-> 900,
       release_date |-> <<"1", "9", "8", "8", "-", "0", "6", "-", "0", "3">>, genre_ids |-> <<35>>],
      [title |-> <<"T", "o", "y", " ", "S", "t", "o", "r", "y", " ", "2">>, vote_average |-> Frac(15, 2), vote_count |-> 900,
       release_date |-> <<"1", "9", "9", "9", "-", "1", "0", "-", "3", "0">>, genre_ids |-> <<16, 35>>],
      [title |-> <<"C", "u", "b", "e">>, vote_average |-> Num(7), vote_count |-> 100,
       release_date |-> <<>>, genre_ids |-> <<>>] }

\* movie_recommendations_improved.csv as an earlier run left it
PreviousRecs ==
    << [title |-> <<"A", "l", "i", "e", "n">>, year |-> <<"1", "9", "7", "9">>,
        tmdb_rating |-> Num(8), recommended_because |-> <<"H", "e", "a", "t">>,
        recommendation_count |-> 3, genre_ids |-> <<"2", "7">>] >>

AggInit ==
    /\ gorg_films = AggGorg
    /\ sali_films \in AggSali
    /\ both_loved = find_both_loved(gorg_films, sali_films)
    /\ index_both_loved = <<>>
    /\ lphase = "found"
    /\ recommendations = <<>>
    /\ sorted_recs = <<>>
    /\ loved_pos = 1
    /\ processed = 0
    /\ aphase = "aggregating"
    /\ occurrences = <<>>
    /\ watched_skips = 0
    /\ recommendations_list = <<>>
    /\ rec_csv = PreviousRecs
    /\ TitleParked
    /\ PredParked
    /\ PipeParked
    /\ AdmitParked
    /\ ScrapeParked
    /\ LoadParked
    /\ FileParked
    /\ GateParked
    /\ TvParked

\* the loop body for one entry of all_suggestions of the current loved movie;
\* occurrences records each pass that reaches the count += weight line,
\* watched_skips counts the passes in which already_watched is set
Suggest ==
    /\ aphase = "aggregating"
    /\ loved_pos <= Len(both_loved)
    /\ processed < MaxSuggestions
    /\ \E m \in Catalog :
          /\ recommendations' = process_suggestion(recommendations, m, both_loved[loved_pos].title,
                                                   gorg_films, sali_films)
          /\ occurrences' = IF admitted(m, both_loved[loved_pos].title, gorg_films, sali_films)
                            THEN Append(occurrences, [title |-> m.title,
                                                      genre_ids |-> m.genre_ids,
                                                      source |-> both_loved[loved_pos].title])
                            ELSE occurrences
          /\ watched_skips' = IF already_watched(m.title, both_loved[loved_pos].title,
                                                 watched_set(gorg_films), watched_set(sali_films),
                                                 all_watched_titles(gorg_films, sali_films))
                              THEN watched_skips + 1
                              ELSE watched_skips
    /\ processed' = processed + 1
    /\ UNCHANGED <<sorted_recs, loved_pos, aphase, recommendations_list, rec_csv, filmVars, lovedVars, titleVars, predVars, pipeVars, admitVars, scrapeVars, loadVars, fileVars, gateVars, tvVars>>

\* the suggestions of the current loved movie are exhausted (none at all when
\* the movie is not found in the catalog): on to the next loved movie
NextLoved ==
    /\ aphase = "aggregating"
    /\ loved_pos <= Len(both_loved)
    /\ loved_pos' = loved_pos + 1
    /\ UNCHANGED <<recommendations, sorted_recs, processed, aphase, occurrences, watched_skips, recommendations_list, rec_csv, filmVars, lovedVars, titleVars, predVars, pipeVars, admitVars, scrapeVars, loadVars, fileVars, gateVars, tvVars>>

\* after the loop: sorted_recs
Rank ==
    /\ aphase = "aggregating"
    /\ loved_pos > Len(both_loved)
    /\ sorted_recs' = rank(recommendations)
    /\ aphase' = "ranked"
    /\ UNCHANGED <<recommendations, loved_pos, processed, occurrences, watched_skips, recommendations_list, rec_csv, filmVars, lovedVars, titleVars, predVars, pipeVars, admitVars, scrapeVars, loadVars, fileVars, gateVars, tvVars>>

\* recommendations_list from sorted_recs[:25], and the table written from it
Emit ==
    /\ aphase = "ranked"
    /\ \E rows \in {build_recommendations_list(sorted_recs, watched_set(gorg_films),
                                                watched_set(sali_films))} :
          /\ recommendations_list' = rows
          /\ rec_csv' = save_recommendations(rows, rec_csv)
    /\ aphase' = "emitted"
    /\ UNCHANGED <<recommendations, sorted_recs, loved_pos, processed, occurrences, watched_skips, filmVars, lovedVars, titleVars, predVars, pipeVars, admitVars, scrapeVars, loadVars, fileVars, gateVars, tvVars>>

AggNext == Suggest \/ NextLoved \/ Rank \/ Emit

SpecAgg == AggInit /\ [][AggNext]_vars

\* score = weighted count x 2 + rating, rating 0 when metadata is absent
ScoreOf(c) ==
    FAdd(Num(2 * c.count), IF c.tmdb_data = <<>> THEN Num(0) ELSE c.tmdb_data[1].vote_average)

\* C8: the ranked list holds every aggregated candidate once, in descending
\* order of score, and candidates of equal score keep the order in which they
\* were first inserted into the aggregation.
C8_RankingStableByScore ==
    aphase = "ranked" =>
        /\ Len(sorted_recs) = Len(recommendations)
        /\ \A k \in 1..Len(recommendations) :
              \E j \in 1..Len(sorted_recs) : sorted_recs[j] = recommendations[k]
        /\ \A i, j \in 1..Len(sorted_recs) :
              i < j =>
                 /\ FGe(ScoreOf(sorted_recs[i]), ScoreOf(sorted_recs[j]))
                 /\ ScoreOf(sorted_recs[i]) = ScoreOf(sorted_recs[j]) =>
                       KeyPos(recommendations, sorted_recs[i].title)
                           < KeyPos(recommendations, sorted_recs[j].title)

\* a ranking of three candidates in which two tie and the first-inserted one
\* does not have the highest score
C8_Witness ==
    /\ aphase = "ranked"
    /\ Len(sorted_recs) = 3
    /\ \E i, j \in 1..3 :
          i < j /\ ScoreOf(sorted_recs[i]) = ScoreOf(sorted_recs[j])
    /\ sorted_recs[1] # recommendations[1]

-----------------------------------------------------------------------------
(* Pipeline orchestrator: pipeline.py run_pipeline, scraper.py run_scrape.
   The gate around run_pipeline (the trigger that takes the lock without
   blocking and releases it when the run returns) is not part of the sources
   at hand and follows the specification, section 4.6 and 5. *)

NumTriggers == 2

MaxSnapshot == 1

Procs == 1..NumTriggers

\* what a scrape can yield: -1 an exception, 0 no films, otherwise the films
\* of the profile as it is at that moment
ScrapeResults == -1..MaxSnapshot

NoTable == [gorg |-> 0, sali |-> 0]

\* the films returned by the two scrapes of the run in progress: -2 before
\* the scrape has returned or raised
NotScraped == [gorg |-> -2, sali |-> -2]

RunningPcs == {"scrape_gorg", "scrape_sali", "check_csvs", "movies", "tv", "return"}

\* A variant of the gate in which the attempt always succeeds.
try_acquire_unguarded(holder, p) == p

\* non-blocking attempt to take the lock: the holder afterwards
try_acquire(holder, p) == IF holder = 0 THEN p ELSE holder

\* run_scrape: the table is written only when films were found
run_scrape(table, films) == IF films = 0 THEN table ELSE films

\* A variant of the test that is content with one of the two tables.
scraped_csvs_exist_either(t) == t.gorg # 0 \/ t.sali # 0

\* both scraped tables exist
scraped_csvs_exist(t) == t.gorg # 0 /\ t.sali # 0

\* a recommender run: reads both scraped tables and writes its table when it
\* has recommendations; when it has none, or raises, the old table stays
recommender_run(old, t, outcome) ==
    IF outcome = "written" THEN [gorg |-> t.gorg, sali |-> t.sali] ELSE old

RecommenderOutcomes == {"written", "nothing", "raised"}

\* A variant in which an exception of a recommender is not caught.
after_recommender_uncaught(outcome, next) == IF outcome = "raised" THEN "crashed" ELSE next

\* where run_pipeline goes on after a recommender step: its exception is
\* caught and printed
after_recommender(outcome, next) == next

PipeInit ==
    /\ lock = 0
    /\ pc = [p \in Procs |-> "idle"]
    /\ tables \in { [gorg |-> 0, sali |-> 0, movies |-> NoTable, tv |-> NoTable],
                    [gorg |-> 1, sali |-> 1, movies |-> [gorg |-> 1, sali |-> 1],
                     tv |-> [gorg |-> 1, sali |-> 1]] }
    /\ solo = [p \in Procs |-> <<>>]
    /\ output = [p \in Procs |-> <<>>]
    /\ steps = [p \in Procs |-> 0]
    /\ fired_during = [p \in Procs |-> 0]
    /\ run_films = NotScraped
    /\ TitleParked
    /\ FilmsParked
    /\ PredParked
    /\ LovedParked
    /\ AggParked
    /\ AdmitParked
    /\ ScrapeParked
    /\ LoadParked
    /\ FileParked
    /\ GateParked
    /\ TvParked

\* process p performs a step of its run that leaves the tables as t
Step(p, t, next) ==
    /\ tables' = t
    /\ solo' = [solo EXCEPT ![p] = t]
    /\ steps' = [steps EXCEPT ![p] = @ + 1]
    /\ pc' = [pc EXCEPT ![p] = next]
    /\ UNCHANGED <<lock, output, fired_during>>

\* the runs between their start and their return
Active == {p \in Procs : pc[p] \in RunningPcs}

\* a trigger fires: the run starts if the lock is free, otherwise the trigger
\* is skipped; fired_during notes the run that was active at that moment
Trigger(p) ==
    /\ pc[p] = "idle"
    /\ lock' = try_acquire(lock, p)
    /\ IF lock' = p
       THEN /\ pc' = [pc EXCEPT ![p] = "scrape_gorg"]
            /\ solo' = [solo EXCEPT ![p] = tables]
       ELSE /\ pc' = [pc EXCEPT ![p] = "skipped"]
            /\ UNCHANGED solo
    /\ fired_during' = [fired_during EXCEPT ![p] =
                            IF Active = {} THEN 0 ELSE CHOOSE a \in Active : TRUE]
    /\ UNCHANGED <<tables, output, steps, run_films>>
    /\ UNCHANGED <<titleVars, filmVars, predVars, lovedVars, aggVars, admitVars, scrapeVars, loadVars, fileVars, gateVars, tvVars>>

\* [1/4] run_scrape of the first profile; an exception ends the run;
\* run_films notes what scrape_letterboxd_films returned, -1 for an exception
ScrapeGorg(p) ==
    /\ pc[p] = "scrape_gorg"
    /\ \E films \in ScrapeResults :
          /\ run_films' = [run_films EXCEPT !.gorg = films]
          /\ IF films = -1
             THEN Step(p, tables, "return")
             ELSE Step(p, [tables EXCEPT !.gorg = run_scrape(@, films)], "scrape_sali")
    /\ UNCHANGED <<titleVars, filmVars, predVars, lovedVars, aggVars, admitVars, scrapeVars, loadVars, fileVars, gateVars, tvVars>>

\* [2/4] run_scrape of the second profile; an exception ends the run
ScrapeSali(p) ==
    /\ pc[p] = "scrape_sali"
    /\ \E films \in ScrapeResults :
          /\ run_films' = [run_films EXCEPT !.sali = films]
          /\ IF films = -1
             THEN Step(p, tables, "return")
             ELSE Step(p, [tables EXCEPT !.sali = run_scrape(@, films)], "check_csvs")
    /\ UNCHANGED <<titleVars, filmVars, predVars, lovedVars, aggVars, admitVars, scrapeVars, loadVars, fileVars, gateVars, tvVars>>

\* the recommendation steps are skipped when a scraped table is missing
CheckCsvs(p) ==
    /\ pc[p] = "check_csvs"
    /\ pc' = [pc EXCEPT ![p] = IF scraped_csvs_exist(tables) THEN "movies" ELSE "return"]
    /\ UNCHANGED <<lock, tables, solo, output, steps, fired_during, run_films>>
    /\ UNCHANGED <<titleVars, filmVars, predVars, lovedVars, aggVars, admitVars, scrapeVars, loadVars, fileVars, gateVars, tvVars>>

\* [3/4] the movie recommender; its exceptions are printed and swallowed
MovieRecs(p) ==
    /\ pc[p] = "movies"
    /\ \E outcome \in RecommenderOutcomes :
          Step(p, [tables EXCEPT !.movies = recommender_run(@, tables, outcome)],
               after_recommender(outcome, "tv"))
    /\ UNCHANGED run_films
    /\ UNCHANGED <<titleVars, filmVars, predVars, lovedVars, aggVars, admitVars, scrapeVars, loadVars, fileVars, gateVars, tvVars>>

\* [4/4] the TV recommender; its exceptions are printed and swallowed
TvRecs(p) ==
    /\ pc[p] = "tv"
    /\ \E outcome \in RecommenderOutcomes :
          Step(p, [tables EXCEPT !.tv = recommender_run(@, tables, outcome)],
               after_recommender(outcome, "return"))
    /\ UNCHANGED run_films
    /\ UNCHANGED <<titleVars, filmVars, predVars, lovedVars, aggVars, admitVars, scrapeVars, loadVars, fileVars, gateVars, tvVars>>

\* run_pipeline returns and the gate releases the lock
Return(p) ==
    /\ pc[p] = "return"
    /\ lock' = IF lock = p THEN 0 ELSE lock
    /\ output' = [output EXCEPT ![p] = tables]
    /\ pc' = [pc EXCEPT ![p] = "done"]
    /\ run_films' = NotScraped
    /\ UNCHANGED <<tables, solo, steps, fired_during>>
    /\ UNCHANGED <<titleVars, filmVars, predVars, lovedVars, aggVars, admitVars, scrapeVars, loadVars, fileVars, gateVars, tvVars>>

PipeNext ==
    \/ \E p \in Procs : Trigger(p)
    \/ \E p \in Procs : ScrapeGorg(p)
    \/ \E p \in Procs : ScrapeSali(p)
    \/ \E p \in Procs : CheckCsvs(p)
    \/ \E p \in Procs : MovieRecs(p)
    \/ \E p \in Procs : TvRecs(p)
    \/ \E p \in Procs : Return(p)

SpecPipeline == PipeInit /\ [][PipeNext]_vars

\* a step of run_pipeline by the run that is active
PipeStep ==
    \E p \in Procs :
        \/ ScrapeGorg(p) \/ ScrapeSali(p) \/ CheckCsvs(p)
        \/ MovieRecs(p) \/ TvRecs(p) \/ Return(p)

\* every step of a run returns or raises, and run_pipeline then goes on
PipeFairness == WF_vars(PipeStep)

SpecPipelineLive == PipeInit /\ [][PipeNext]_vars /\ PipeFairness

\* C1: at most one run is active, and a trigger that fires during a run is
\* rejected at once: it is skipped in that very step, while the lock is held
\* by the active run, and executes no scrape or aggregation step.
C1_AtMostOneActiveRun ==
    /\ Cardinality(Active) <= 1
    /\ \A p \in Active : lock = p
    /\ \A q \in Procs :
          fired_during[q] # 0 => pc[q] = "skipped" /\ steps[q] = 0 /\ lock # q
    /\ \A q \in Procs :
          (pc[q] = "idle" /\ lock # 0) => ENABLED Trigger(q)

\* a trigger was rejected while another run was between its start and its return
C1_Witness ==
    \E p, q \in Procs : pc[p] = "tv" /\ fired_during[q] = p /\ steps[p] >= 3

\* C2: a trigger during an active run ends as a skip, and the tables present
\* when the active run returns are the ones that run writes on its own.
C2_ActiveRunOutputUntouched ==
    \A p, q \in Procs :
        fired_during[q] = p =>
            /\ pc[q] = "skipped"
            /\ pc[p] \in RunningPcs => tables = solo[p]
            /\ pc[p] = "done" => output[p] = solo[p]

\* a run that wrote a fresh movie table has returned, and a trigger was
\* rejected during it
C2_Witness ==
    \E p, q \in Procs :
        /\ pc[p] = "done"
        /\ fired_during[q] = p
        /\ output[p].movies = [gorg |-> MaxSnapshot, sali |-> 1]
        /\ output[p].tv = NoTable

-----------------------------------------------------------------------------
(* Specification SpecAdmit: the loop body of the aggregation applied to one
   suggestion of the catalog service, for suggestions over a grid of titles,
   ratings, vote counts, release dates and genre lists *)

AdmitGorg ==
    << [film_title |-> <<"H", "e", "a", "t", " ", "(", "1", "9", "9", "5", ")">>, rating |-> Num(5)],
       [film_title |-> <<"B", "i", "g">>, rating |-> Num(3)],
       [film_title |-> <<"T", "o", "y", " ", "S", "t", "o", "r", "y">>, rating |-> Num(4)] >>

AdmitSali ==
    << [film_title |-> <<"h", "e", "a", "t">>, rating |-> Frac(9, 2)],
       [film_title |-> <<"T", "o", "y", " ", "S", "t", "o", "r", "y">>, rating |-> Num(5)] >>

AdmitTitles ==
    { <<"A", "r", "g", "o">>, <<"B", "i", "g">>, <<"B", "i", "g", " ", "F", "i", "s", "h">>, <<"H", "E", "A", "T">>, <<"T", "h", "o", "r">>,
      <<"T", "o", "y", " ", "S", "t", "o", "r", "y", " ", "2">>, <<"T", "o", "y", " ", "S", "t", "o", "r", "y", " ", "1", "9", "9", "5">> }

AdmitRatings == { Num(5), Frac(11, 2), Num(6), Num(7), Frac(17, 2), Num(9) }

AdmitVotes == { 499, 500 }

AdmitDates ==
    { <<>>, <<"1", "9", "6", "9", "-", "1", "2", "-", "3", "1">>, <<"1", "9", "7", "0", "-", "0", "1", "-", "0", "1">>, <<"2", "0", "2", "6", "-", "1", "2", "-", "3", "1">>, <<"2", "0", "2", "7", "-", "0", "1", "-", "0", "1">> }

AdmitGenres == { <<>>, <<18>>, <<28, 12>>, <<28, 878, 18>>, <<28, 12, 18, 35, 80>> }

AdmitInit ==
    /\ gorg_films = AdmitGorg
    /\ sali_films = AdmitSali
    /\ cand \in [title : AdmitTitles, vote_average : AdmitRatings, vote_count : AdmitVotes,
                 release_date : AdmitDates, genre_ids : AdmitGenres]
    /\ cand_loved \in {both_loved_rows(AdmitGorg, AdmitSali)[k].title :
                          k \in 1..Len(both_loved_rows(AdmitGorg, AdmitSali))}
    /\ cand_watched = FALSE
    /\ cand_recs = <<>>
    /\ cphase = "input"
    /\ TitleParked
    /\ PredParked
    /\ LovedParked
    /\ AggParked
    /\ PipeParked
    /\ ScrapeParked
    /\ LoadParked
    /\ FileParked
    /\ GateParked
    /\ TvParked

\* the loop body for the suggestion, starting from an empty dictionary
Admit ==
    /\ cphase = "input"
    /\ cand_watched' = already_watched(cand.title, cand_loved, watched_set(gorg_films),
                                       watched_set(sali_films),
                                       all_watched_titles(gorg_films, sali_films))
    /\ cand_recs' = process_suggestion(<<>>, cand, cand_loved, gorg_films, sali_films)
    /\ cphase' = "processed"
    /\ UNCHANGED <<cand, cand_loved, titleVars, filmVars, predVars, lovedVars, aggVars, pipeVars, scrapeVars, loadVars, fileVars, gateVars, tvVars>>

AdmitNext == Admit

SpecAdmit == AdmitInit /\ [][AdmitNext]_vars

\* genre-excluded: a blocked keyword in the title, or at least 2 blocked
\* genre ids among at most 4 genres
GenreExcluded(c) ==
    \/ \E kw \in SUPERHERO_KEYWORDS : Contains(Lower(c.title), kw)
    \/ /\ Len(c.genre_ids) <= 4
       /\ \E i, j \in 1..Len(c.genre_ids) :
             i # j /\ c.genre_ids[i] \in {28, 878, 12} /\ c.genre_ids[j] \in {28, 878, 12}

\* the release year, 0 when there is no release date
ReleaseYear(c) ==
    IF c.release_date = <<>> THEN 0
    ELSE 1000 * DigitValue(c.release_date[1]) + 100 * DigitValue(c.release_date[2])
             + 10 * DigitValue(c.release_date[3]) + DigitValue(c.release_date[4])

\* unwatched, enough votes, year in range
OtherwiseAdmissible(c) ==
    /\ ~cand_watched
    /\ c.vote_count >= 500
    /\ ReleaseYear(c) >= 1970 /\ ReleaseYear(c) <= 2026

\* C11 as stated: a genre-excluded candidate is dropped unless its rating
\* exceeds 8.5, and with the other attributes in order it is included when its
\* rating exceeds 8.5.
C11_ExcludedUnlessAbove ==
    (cphase = "processed" /\ GenreExcluded(cand)) =>
        /\ ~FGt(cand.vote_average, Frac(17, 2)) => cand_recs = <<>>
        /\ (FGt(cand.vote_average, Frac(17, 2)) /\ OtherwiseAdmissible(cand)) => cand_recs # <<>>

\* C11 amended: a genre-excluded candidate is dropped when its rating is below
\* 8.5, and with the other attributes in order it is included when its rating
\* is 8.5 or more (excluded at 7.0, included at 9.0).
C11_ExcludedUnlessAtLeast ==
    (cphase = "processed" /\ GenreExcluded(cand)) =>
        /\ FLt(cand.vote_average, Frac(17, 2)) => cand_recs = <<>>
        /\ (FGe(cand.vote_average, Frac(17, 2)) /\ OtherwiseAdmissible(cand)) =>
              /\ Len(cand_recs) = 1
              /\ cand_recs[1].title = cand.title

\* a candidate with two blocked genre ids, rated 9.0, was included
C11_Witness ==
    /\ cphase = "processed"
    /\ cand.genre_ids = <<28, 12>>
    /\ ~(\E kw \in SUPERHERO_KEYWORDS : Contains(Lower(cand.title), kw))
    /\ cand.vote_average = Num(9)
    /\ cand_recs # <<>>

\* the normalized titles of both users' histories
WatchedNormalized ==
    {normalize_title(gorg_films[i].film_title) : i \in 1..Len(gorg_films)}
        \cup {normalize_title(sali_films[i].film_title) : i \in 1..Len(sali_films)}

\* the raw lowercased, stripped titles of both users' histories
WatchedRawLower ==
    {Strip(Lower(gorg_films[i].film_title)) : i \in 1..Len(gorg_films)}
        \cup {Strip(Lower(sali_films[i].film_title)) : i \in 1..Len(sali_films)}

\* one title contains the other, both are longer than 8, min(len)/max(len) > 0.7
FuzzyPair(a, b) ==
    /\ Len(a) > 8 /\ Len(b) > 8
    /\ Contains(a, b) \/ Contains(b, a)
    /\ \/ Len(a) <= Len(b) /\ 10 * Len(a) > 7 * Len(b)
       \/ Len(b) <= Len(a) /\ 10 * Len(b) > 7 * Len(a)

WatchedStep1 == normalize_title(cand.title) \in WatchedNormalized

WatchedStep2 == Strip(Lower(cand.title)) \in WatchedRawLower

WatchedStep3 == normalize_title(cand.title) = normalize_title(cand_loved)

WatchedStep4 == \E W \in WatchedNormalized : FuzzyPair(normalize_title(cand.title), W)

\* C16: a candidate is treated as watched exactly when its normalized title is
\* in a normalized watch set, or its raw lowercased title is in the raw watch
\* set, or it is the loved title itself, or it fuzzily contains or is
\* contained in a watched title.
C16_WatchedIffFourSteps ==
    cphase = "processed" =>
        (cand_watched <=> (WatchedStep1 \/ WatchedStep2 \/ WatchedStep3 \/ WatchedStep4))

\* a candidate treated as watched by the fuzzy step alone
C16_Witness ==
    /\ cphase = "processed"
    /\ cand_watched
    /\ ~WatchedStep1 /\ ~WatchedStep2 /\ ~WatchedStep3
    /\ WatchedStep4

\* the candidate has a genre id of the priority set (mystery, drama, thriller)
PriorityGenre(c) == \E i \in 1..Len(c.genre_ids) : c.genre_ids[i] \in {9648, 18, 53}

\* C20: an occurrence is admitted exactly when it is not watched, not
\* genre-excluded or rated at the exception level, has at least 500 votes, a
\* release year within [1970, 2026] and a rating of at least 5.5 with a
\* priority genre and 6.0 without; without a release year it is not admitted.
C20_AdmittedIff ==
    cphase = "processed" =>
        /\ cand_recs # <<>> <=>
              /\ ~(WatchedStep1 \/ WatchedStep2 \/ WatchedStep3 \/ WatchedStep4)
              /\ ~GenreExcluded(cand) \/ FGe(cand.vote_average, Frac(17, 2))
              /\ cand.vote_count >= 500
              /\ ReleaseYear(cand) >= 1970 /\ ReleaseYear(cand) <= 2026
              /\ FGe(cand.vote_average, IF PriorityGenre(cand) THEN Frac(11, 2) ELSE Num(6))
        /\ cand.release_date = <<>> => cand_recs = <<>>

\* a priority candidate rated 5.5 with 500 votes, released in 1970, was admitted
C20_Witness ==
    /\ cphase = "processed"
    /\ cand.vote_average = Frac(11, 2)
    /\ cand.vote_count = 500
    /\ ReleaseYear(cand) = 1970
    /\ PriorityGenre(cand)
    /\ Len(cand_recs) = 1

-----------------------------------------------------------------------------
(* Profile scraper: scraper.py scrape_letterboxd_films *)

\* max_pages of the model (the code's default is 50)
MaxPages == 3

\* what one session.get of a films page can yield: a request error, or a
\* response with a status; a 200 response lists 0, 1 or 2 films
PageResponses == {"error", "404", "403", "429", "500", "films0", "films1", "films2"}

\* the rows a 200 response adds to films
page_films(response, p) ==
    CASE response = "films1" -> <<p>>
      [] response = "films2" -> <<p, p>>
      [] OTHER -> <<>>

\* the statuses and the empty page that end the page loop with break
breaks_loop(response) == response \in {"404", "403", "500", "films0"}

\* return films after the loop
films_returned(scraped, why) == scraped

\* why the loop ended
failure_of(response) ==
    CASE response = "404" -> "not_found"
      [] response = "403" -> "private"
      [] response = "500" -> "status"
      [] response = "error" -> "retries"
      [] OTHER -> "none"

ScrapeInit ==
    /\ page = 0
    /\ attempt = 0
    /\ scrape_films = <<>>
    /\ failure = "none"
    /\ sphase = "warmup"
    /\ TitleParked
    /\ FilmsParked
    /\ PredParked
    /\ LovedParked
    /\ AggParked
    /\ PipeParked
    /\ AdmitParked
    /\ LoadParked
    /\ FileParked
    /\ GateParked
    /\ TvParked

\* the warm-up request: a 403 returns at once, a request error is only printed
Warmup ==
    /\ sphase = "warmup"
    /\ \E outcome \in {"ok", "403", "error"} :
          IF outcome = "403"
          THEN /\ sphase' = "returned"
               /\ failure' = "private"
               /\ scrape_films' = films_returned(scrape_films, "private")
               /\ UNCHANGED <<page, attempt>>
          ELSE /\ sphase' = "request"
               /\ page' = 1
               /\ UNCHANGED <<attempt, scrape_films, failure>>
    /\ UNCHANGED <<titleVars, filmVars, predVars, lovedVars, aggVars, pipeVars, admitVars, loadVars, fileVars, gateVars, tvVars>>

\* one session.get of the current page and what follows the response
Request ==
    /\ sphase = "request"
    /\ \E response \in PageResponses :
          IF response = "error" /\ attempt < 2
          THEN /\ attempt' = attempt + 1
               /\ UNCHANGED <<page, scrape_films, failure, sphase>>
          ELSE IF response = "error" \/ breaks_loop(response) \/ page = MaxPages
          THEN /\ sphase' = "returned"
               /\ failure' = failure_of(response)
               /\ scrape_films' = films_returned(scrape_films \o page_films(response, page), failure_of(response))
               /\ UNCHANGED <<page, attempt>>
          ELSE /\ scrape_films' = scrape_films \o page_films(response, page)
               /\ page' = page + 1
               /\ attempt' = 0
               /\ UNCHANGED <<failure, sphase>>
    /\ UNCHANGED <<titleVars, filmVars, predVars, lovedVars, aggVars, pipeVars, admitVars, loadVars, fileVars, gateVars, tvVars>>

ScrapeNext == Warmup \/ Request

SpecScrape == ScrapeInit /\ [][ScrapeNext]_vars

\* C13: the scraper does not raise, and when the profile is not found or
\* private, or the requests of a page fail three times, it returns an empty
\* sequence, on whichever page that happens.
C13_FailureReturnsEmpty ==
    /\ sphase \in {"warmup", "request", "returned"}
    /\ (sphase = "returned" /\ failure \in {"not_found", "private", "retries"}) => scrape_films = <<>>

-----------------------------------------------------------------------------
(* Table loading: app.py load_data *)

TableNames == {"recommendations", "genre_recs", "tv_recs", "gorg_films", "sali_films"}

\* a table's source: missing, corrupt (read_csv raises on both), or readable rows
Sources ==
    { [state |-> "missing", rows |-> <<>>],
      [state |-> "corrupt", rows |-> <<>>],
      [state |-> "ok", rows |-> <<1>>],
      [state |-> "ok", rows |-> <<1, 2>>] }

\* pd.read_csv raises for this source
read_raises(source) == source.state # "ok"

\* try: pd.read_csv(...) except: pd.DataFrame()
read_or_empty(source) == IF read_raises(source) THEN <<>> ELSE source.rows

\* the five tables load_data returns; both film tables are read in one try block
load_data(files) ==
    [recommendations |-> read_or_empty(files.recommendations),
     genre_recs |-> read_or_empty(files.genre_recs),
     tv_recs |-> read_or_empty(files.tv_recs),
     gorg_films |-> IF read_raises(files.gorg_films) \/ read_raises(files.sali_films)
                    THEN <<>> ELSE files.gorg_films.rows,
     sali_films |-> IF read_raises(files.gorg_films) \/ read_raises(files.sali_films)
                    THEN <<>> ELSE files.sali_films.rows]

LoadInit ==
    /\ csv \in [TableNames -> Sources]
    /\ loaded = <<>>
    /\ ldphase = "call"
    /\ TitleParked
    /\ FilmsParked
    /\ PredParked
    /\ LovedParked
    /\ AggParked
    /\ PipeParked
    /\ AdmitParked
    /\ ScrapeParked
    /\ FileParked
    /\ GateParked
    /\ TvParked

LoadData ==
    /\ ldphase = "call"
    /\ loaded' = load_data(csv)
    /\ ldphase' = "returned"
    /\ UNCHANGED csv
    /\ UNCHANGED <<titleVars, filmVars, predVars, lovedVars, aggVars, pipeVars, admitVars, scrapeVars, fileVars, gateVars, tvVars>>

LoadNext == LoadData

SpecLoad == LoadInit /\ [][LoadNext]_vars

\* C12: load_data returns (it does not raise), with an empty table for every
\* missing or corrupt source and the rows of every readable source.
C12_EmptyOnlyForUnreadable ==
    ldphase = "returned" =>
        \A name \in TableNames :
            /\ csv[name].state # "ok" => loaded[name] = <<>>
            /\ csv[name].state = "ok" => loaded[name] = csv[name].rows

-----------------------------------------------------------------------------
(* A table file written by run_scrape (DataFrame.to_csv on the table's own
   path) while a request reads it in load_data (pd.read_csv) *)

MaxTableRows == 3

\* a table of n rows of one version
TableOf(version, n) == [i \in 1..n |-> [version |-> version, row |-> i]]

\* to_csv opens the path for writing, which truncates the file
to_csv_open(content) == <<>>

\* the next rows reach the file: the first n rows of the new table are in it
to_csv_write(rows, n) == SubSeq(rows, 1, n)

\* pd.read_csv in load_data: the rows in the file at that moment; an empty
\* file makes read_csv raise, which load_data turns into an empty table
read_csv_or_empty(content) == content

FileInit ==
    /\ \E n \in 1..MaxTableRows : old_rows = TableOf(1, n)
    /\ \E n \in 1..MaxTableRows : new_rows = TableOf(2, n)
    /\ file = old_rows
    /\ written = 0
    /\ wphase = "idle"
    /\ observed = <<>>
    /\ rphase = "idle"
    /\ TitleParked
    /\ FilmsParked
    /\ PredParked
    /\ LovedParked
    /\ AggParked
    /\ PipeParked
    /\ AdmitParked
    /\ ScrapeParked
    /\ LoadParked
    /\ GateParked
    /\ TvParked

\* df.to_csv(output_csv): open
ToCsvOpen ==
    /\ wphase = "idle"
    /\ file' = to_csv_open(file)
    /\ wphase' = "writing"
    /\ UNCHANGED <<old_rows, new_rows, written, observed, rphase>>
    /\ UNCHANGED <<titleVars, filmVars, predVars, lovedVars, aggVars, pipeVars, admitVars, scrapeVars, loadVars, gateVars, tvVars>>

\* df.to_csv(output_csv): some more rows are flushed to the file
ToCsvWrite ==
    /\ wphase = "writing"
    /\ written < Len(new_rows)
    /\ \E n \in (written + 1)..Len(new_rows) :
          /\ written' = n
          /\ file' = to_csv_write(new_rows, n)
    /\ UNCHANGED <<old_rows, new_rows, wphase, observed, rphase>>
    /\ UNCHANGED <<titleVars, filmVars, predVars, lovedVars, aggVars, pipeVars, admitVars, scrapeVars, loadVars, gateVars, tvVars>>

\* df.to_csv(output_csv): close
ToCsvClose ==
    /\ wphase = "writing"
    /\ written = Len(new_rows)
    /\ wphase' = "closed"
    /\ UNCHANGED <<file, old_rows, new_rows, written, observed, rphase>>
    /\ UNCHANGED <<titleVars, filmVars, predVars, lovedVars, aggVars, pipeVars, admitVars, scrapeVars, loadVars, gateVars, tvVars>>

\* a request loads the table
ReadCsv ==
    /\ rphase = "idle"
    /\ observed' = read_csv_or_empty(file)
    /\ rphase' = "read"
    /\ UNCHANGED <<file, old_rows, new_rows, written, wphase>>
    /\ UNCHANGED <<titleVars, filmVars, predVars, lovedVars, aggVars, pipeVars, admitVars, scrapeVars, loadVars, gateVars, tvVars>>

FileNext == ToCsvOpen \/ ToCsvWrite \/ ToCsvClose \/ ReadCsv

SpecFile == FileInit /\ [][FileNext]_vars

\* C14: a request that reads the table while it is written observes the
\* complete previous rows or the complete new rows.
C14_ReaderSeesOldOrNew ==
    rphase = "read" => (observed = old_rows \/ observed = new_rows)

\* C15: every run that starts eventually returns from run_pipeline, whichever
\* step fails; none ends with an exception that escaped.
C15_RunReturnsToIdle ==
    \A p \in Procs :
        (pc[p] \in RunningPcs) ~> (pc[p] = "done")

\* a run whose first scrape raised has returned and the orchestrator is idle
C15_Witness ==
    \E p \in Procs : pc[p] = "done" /\ steps[p] = 1 /\ lock = 0 /\ output[p] = solo[p]

\* C18: during the aggregation pass a candidate that is in the dictionary
\* stays in it, its metadata stays as first stored, its weighted count does not
\* decrease and its sources only grow at the end.
C18_MetadataSetOnce ==
    [][aphase = "aggregating" =>
          \A k \in 1..Len(recommendations) :
              /\ k <= Len(recommendations')
              /\ recommendations'[k].title = recommendations[k].title
              /\ recommendations[k].tmdb_data # <<>> =>
                    recommendations'[k].tmdb_data = recommendations[k].tmdb_data
              /\ recommendations'[k].count >= recommendations[k].count
              /\ Len(recommendations'[k].sources) >= Len(recommendations[k].sources)
              /\ SubSeq(recommendations'[k].sources, 1, Len(recommendations[k].sources))
                     = recommendations[k].sources]_vars

\* a candidate first admitted with one catalog record and admitted again with
\* another record of the same title keeps the first record
C18_Witness ==
    \E k \in 1..Len(recommendations) :
        /\ recommendations[k].count = 4
        /\ Len(recommendations[k].sources) = 2
        /\ recommendations[k].tmdb_data[1].vote_average = Num(7)
        /\ recommendations[k].tmdb_data[1].genre_ids = <<35>>

\* the admitted occurrences of one candidate title, in processing order
OccurrencesOf(title) == SelectSeq(occurrences, LAMBDA o : o.title = title)

\* C19: at any point of the aggregation pass every admitted title has one
\* entry, whose weighted count is 3 per admitted priority occurrence plus 1 per
\* admitted non-priority occurrence (a title suggested twice for one loved
\* title counts twice), and whose sources are the loved titles of its
\* admitted occurrences in processing order; so
\* len(sources) <= count <= 3 * len(sources).
C19_CountAndSources ==
    /\ \A i \in 1..Len(occurrences) : KeyPos(recommendations, occurrences[i].title) # 0
    /\ \A k \in 1..Len(recommendations) :
          LET c == recommendations[k]
              occ == OccurrencesOf(c.title)
              priority == Cardinality({i \in 1..Len(occ) : PriorityGenre(occ[i])})
          IN  /\ c.count = 3 * priority + (Len(occ) - priority)
              /\ c.sources = [i \in 1..Len(occ) |-> occ[i].source]
              /\ Len(c.sources) <= c.count
              /\ c.count <= 3 * Len(c.sources)

\* a title admitted twice for the same loved title, once with a priority genre
\* and once without, next to a title admitted for another loved title
C19_Witness ==
    \E k, j \in 1..Len(recommendations) :
        /\ recommendations[k].count = 4
        /\ Len(recommendations[k].sources) = 2
        /\ recommendations[k].sources[1] = recommendations[k].sources[2]
        /\ recommendations[j].sources # <<>>
        /\ recommendations[j].sources[1] # recommendations[k].sources[1]

\* the rows this run writes to the movie recommendation table
RowsWritten == IF recommendations_list # <<>> THEN rec_csv ELSE <<>>

\* the Matcher against the union of both users' watch sets
MatcherWatched(title) ==
    \/ normalize_title(title) \in WatchedNormalized
    \/ Strip(Lower(title)) \in WatchedRawLower
    \/ \E W \in WatchedNormalized : FuzzyPair(normalize_title(title), W)

\* C17: no row written to the movie recommendation table has a title that
\* the Matcher classifies as watched against the union of both watch sets.
C17_NoEmittedRowWatched ==
    aphase = "emitted" =>
        \A i \in 1..Len(RowsWritten) : ~MatcherWatched(RowsWritten[i].title)

\* a run that was offered watched titles during aggregation and writes rows
C17_Witness ==
    /\ aphase = "emitted"
    /\ watched_skips >= 2
    /\ Len(RowsWritten) >= 2
    /\ rec_csv = recommendations_list

-----------------------------------------------------------------------------
(* Specification SpecTiers: predict_liking_percentage on items whose
   recommended_because was written by the emission from a list of source
   titles, against histories that exercise tiers 3 to 5 *)

MaxTierRows == 3

\* the titles of three watch histories; a history is a prefix of one of them
TierTitles ==
    { << <<"I", "t", " ", "(", "1", "9", "9", "0", ")">>, <<"R", "a", "n", " ", "(", "1", "9", "8", "9", ")">>, <<"U", "p", " ", "(", "2", "0", "0", "0", ")">>, <<"B", "i", "g", " ", "(", "1", "9", "9", "5", ")">> >>,
      << <<"I", "t", " ", "(", "1", "9", "9", "0", ")">>, <<"U", "p", " ", "(", "2", "0", "0", "0", ")">>, <<"B", "i", "g", " ", "(", "1", "9", "9", "5", ")">>, <<"R", "a", "n", " ", "(", "1", "9", "8", "5", ")">> >>,
      << <<"M", "e", ",", " ", "Y", "o", "u">>, <<"R", "a", "n", " ", "(", "1", "9", "8", "9", ")">>, <<"H", "e", "a", "t">>, <<"U", "p", " ", "(", "2", "0", "0", "1", ")">> >> }

\* star ratings of history rows: unrated, 2.0, 4.0, 4.5
TierRatings == { NaN, Num(2), Num(4), Frac(9, 2) }

\* catalog ratings 3.0, 6.0, 7.0, 7.5, 8.5, 10.0
TierCatalogRatings == { Num(3), Num(6), Num(7), Frac(15, 2), Frac(17, 2), Num(10) }

TierItemTitles == { <<"H", "e", "r">>, <<"B", "i", "g">> }

TierYears == { 0, 1995 }

\* the loved titles that led to the item, as data['sources'][:3]
TierSources ==
    { <<>>, << <<"I", "t", " ", "(", "1", "9", "9", "0", ")">> >>, << <<"M", "e", ",", " ", "Y", "o", "u">> >>, << <<"U", "p", " ", "(", "2", "0", "0", "0", ")">>, <<"I", "t", " ", "(", "1", "9", "9", "0", ")">> >> }

TierHistories ==
    { [i \in 1..n |-> [film_title |-> titles[i], rating |-> ratings[i]]] :
          <<titles, n, ratings>> \in
              { <<t, k, r>> \in TierTitles \X (0..MaxTierRows) \X
                                 UNION {[1..j -> TierRatings] : j \in 0..MaxTierRows} :
                    Len(r) = k /\ k <= Len(t) } }

TiersInit ==
    /\ item_sources \in TierSources
    /\ movie \in { [title |-> t, tmdb_rating |-> r, year |-> y,
                    recommended_because |-> Join(Take(item_sources, 3), CommaSpace)] :
                       t \in TierItemTitles, r \in TierCatalogRatings, y \in TierYears }
    /\ gorg_films \in TierHistories
    /\ sali_films = <<>>
    /\ gorg_pred = <<>>
    /\ sali_pred = <<>>
    /\ result = <<>>
    /\ pstatus = "input"
    /\ TitleParked
    /\ LovedParked
    /\ AggParked
    /\ PipeParked
    /\ AdmitParked
    /\ ScrapeParked
    /\ LoadParked
    /\ FileParked
    /\ GateParked
    /\ TvParked

SpecTiers == TiersInit /\ [][PredictNext]_vars

\* a history row carries the title t, by the engine's normalization
RowsTitled(user_films, t) ==
    {i \in 1..Len(user_films) :
        app_normalize_title(Strip(user_films[i].film_title)) = app_normalize_title(t)}

\* the item's source titles that are in the history, in the item's order
MatchedSources(user_films) ==
    SelectSeq(item_sources, LAMBDA t : RowsTitled(user_films, t) # {})

\* the history row of each matched source title
SourceRows(user_films) ==
    LET matched == MatchedSources(user_films)
    IN  [k \in 1..Len(matched) |-> user_films[FirstOf(RowsTitled(user_films, matched[k]))]]

\* the mean of the ratings of a sequence of history rows
MeanRating(rows) == FDivInt(FSum([k \in 1..Len(rows) |-> rows[k].rating]), Len(rows))

\* 0.7 x (avg / 5 x 100) + 0.3 x (catalog rating x 10), with the caps of tier 3
ProvenancePercent(avg, catalog_rating) ==
    LET blend == FAdd(FMul(FMul(FDivInt(avg, 5), Num(100)), Frac(7, 10)),
                      FMul(FMul(catalog_rating, Num(10)), Frac(3, 10)))
        capped == IF FGe(avg, Frac(9, 2)) THEN Clamp(blend, 0, 85)
                  ELSE IF FGe(avg, Num(4)) THEN Clamp(blend, 0, 75)
                  ELSE IF FLe(avg, Frac(5, 2)) THEN Clamp(blend, 25, 45)
                  ELSE blend
    IN  Clamp(capped, 25, 85)

ProvenanceTier(user_films, pred) ==
    (RowsTitled(user_films, movie.title) = {} /\ MatchedSources(user_films) # <<>>) =>
        LET rows == SourceRows(user_films)
        IN  /\ pred.percent = ProvenancePercent(MeanRating(rows), movie.tmdb_rating)
            /\ FLe(Num(25), pred.percent) /\ FLe(pred.percent, Num(85))
            /\ pred.matches = [k \in 1..Len(Take(rows, 3)) |-> Strip(rows[k].film_title)]

\* C21: when the item's title matches no history row and a source title of the
\* item is in the history, the percent is 0.7 x (avg source rating / 5 x 100)
\* + 0.3 x (catalog rating x 10) with the caps 85 (avg >= 4.5), 75 (avg >= 4.0)
\* and [25,45] (avg <= 2.5), within [25,85], and the evidence is the first up
\* to 3 matched source titles, also when 3 year-proximity matches exist.
C21_ProvenanceTier ==
    pstatus \in {"returned", "raised"} =>
        /\ ProvenanceTier(gorg_films, gorg_pred)
        /\ ProvenanceTier(sali_films, sali_pred)

\* C21 restricted to source titles without a comma and matched rows that are
\* rated
C21_ProvenanceTierPlainRated ==
    (/\ pstatus \in {"returned", "raised"}
     /\ \A k \in 1..Len(item_sources) : ~Contains(item_sources[k], <<",">>)
     /\ \A k \in 1..Len(SourceRows(gorg_films)) : ~IsNaN(SourceRows(gorg_films)[k].rating))
        => ProvenanceTier(gorg_films, gorg_pred)

\* the history rows whose title carries a "(YYYY)" year within 5 years of the
\* item's year
YearRows(user_films) ==
    SelectSeq(user_films, LAMBDA film :
        /\ SearchYear(film.film_title) # <<>>
        /\ Abs(ParseInt(SearchYear(film.film_title)) - movie.year) <= 5)

\* tier 1, 2 or 3 applies: no history, the item is in it, or a source title is
TiersOneToThree(user_films) ==
    \/ user_films = <<>>
    \/ RowsTitled(user_films, movie.title) # {}
    \/ MatchedSources(user_films) # <<>>

\* 0.5 x (avg / 5 x 100) + 0.5 x (catalog rating x 10) clamped to [30,70]
YearPercent(avg, catalog_rating) ==
    Clamp(FAdd(FMul(FMul(FDivInt(avg, 5), Num(100)), Frac(1, 2)),
               FMul(FMul(catalog_rating, Num(10)), Frac(1, 2))), 30, 70)

YearTier(user_films, pred) ==
    ~TiersOneToThree(user_films) =>
        LET rows == YearRows(user_films)
        IN  IF movie.year # 0 /\ Len(rows) >= 3
            THEN /\ pred.percent = YearPercent(MeanRating(rows), movie.tmdb_rating)
                 /\ pred.matches = [k \in 1..3 |-> rows[k].film_title]
            ELSE pred.matches = <<>>

\* C22: when tiers 1 to 3 do not apply and at least 3 history titles carry a
\* "(YYYY)" year within 5 years of the item's year, the percent is
\* 0.5 x (average of their ratings / 5 x 100) + 0.5 x (catalog rating x 10)
\* clamped to [30,70] and the evidence is the first 3 of them; with fewer
\* than 3, or an item year of 0, no year evidence is used.
C22_YearTier ==
    pstatus \in {"returned", "raised"} =>
        /\ YearTier(gorg_films, gorg_pred)
        /\ YearTier(sali_films, sali_pred)

\* C22 restricted to year-proximity rows that are rated
C22_YearTierRated ==
    (/\ pstatus \in {"returned", "raised"}
     /\ \A k \in 1..Len(YearRows(gorg_films)) : ~IsNaN(YearRows(gorg_films)[k].rating))
        => YearTier(gorg_films, gorg_pred)

\* the step function of tier 5 over the catalog rating
NoEvidencePercent(catalog_rating) ==
    IF FGe(catalog_rating, Frac(17, 2)) THEN 40
    ELSE IF FGe(catalog_rating, Frac(15, 2)) THEN 38
    ELSE IF FGe(catalog_rating, Num(7)) THEN 35
    ELSE IF FGe(catalog_rating, Num(6)) THEN 32
    ELSE 28

NoEvidenceTier(user_films, pred) ==
    (~TiersOneToThree(user_films) /\ Len(YearRows(user_films)) < 3) =>
        /\ pred.percent = Num(NoEvidencePercent(movie.tmdb_rating))
        /\ FLe(pred.percent, Num(40))
        /\ pred.matches = <<>>

\* C23: a user with history but no exact title match, no matched source title
\* and fewer than 3 year-proximity matches gets 40 for a catalog rating of at
\* least 8.5, 38 from 7.5, 35 from 7.0, 32 from 6.0 and 28 below, never more
\* than 40, and no evidence.
C23_NoEvidenceTier ==
    pstatus \in {"returned", "raised"} =>
        /\ NoEvidenceTier(gorg_films, gorg_pred)
        /\ NoEvidenceTier(sali_films, sali_pred)

\* a catalog rating of 10 against a history with two year-proximity rows
C23_Witness ==
    /\ pstatus = "returned"
    /\ ~TiersOneToThree(gorg_films)
    /\ Len(YearRows(gorg_films)) = 2
    /\ movie.tmdb_rating = Num(10)
    /\ result.gorg_percent = 40
    /\ gorg_pred.matches = <<>>

\* s ends with the suffix e
EndsWith(s, e) == Len(s) >= Len(e) /\ SubSeq(s, Len(s) - Len(e) + 1, Len(s)) = e

\* the reason names a title of the evidence, with or without its year
NamesEvidence(reason, matches) ==
    \E k \in 1..Len(matches) : Contains(reason, clean_title(matches[k]))

\* the titles, without year, of the history rows rated 4.0 or more
LikedTitles(user_films) ==
    {clean_title(user_films[i].film_title) :
        i \in {j \in 1..Len(user_films) : FGe(user_films[j].rating, Num(4))}}

\* "You liked A" or "You liked A, B" over the top-rated history titles
TopRatedReason(reason, user_films) ==
    \E a \in LikedTitles(user_films) :
        \/ reason = YouLiked \o a
        \/ \E b \in LikedTitles(user_films) : reason = YouLiked \o a \o CommaSpace \o b

NoSimilarFirst(pred) ==
    (FLe(pred.percent, Num(45)) /\ pred.matches = <<>>) =>
        pred.reasons # <<>> /\ pred.reasons[1] = NoSimilarMovies

RatedLowOnlyUpToFifty(pred) ==
    \A i \in 1..Len(pred.reasons) :
        (StartsWith(pred.reasons[i], YouRated) /\ EndsWith(pred.reasons[i], LowSuffix))
            => FLe(pred.percent, Num(50))

ReasonRules(pred) ==
    /\ NoSimilarFirst(pred)
    /\ \A i \in 1..Len(pred.reasons) :
          (StartsWith(pred.reasons[i], YouLiked) /\ NamesEvidence(pred.reasons[i], pred.matches))
              => RoundHalfEven(pred.percent) >= 60
    /\ RatedLowOnlyUpToFifty(pred)

ReasonRulesWithBackfill(user_films, pred) ==
    /\ NoSimilarFirst(pred)
    /\ \A i \in 1..Len(pred.reasons) :
          StartsWith(pred.reasons[i], YouLiked) =>
              \/ FGe(pred.percent, Num(60))
              \/ FGt(pred.percent, Num(45)) /\ TopRatedReason(pred.reasons[i], user_films)
    /\ RatedLowOnlyUpToFifty(pred)

-----------------------------------------------------------------------------
(* Specification SpecEmit: ranking and emission of an aggregation that holds
   about as many candidates as the emission keeps *)

MaxOver == 2

\* sorted_recs[:25]
TopN == 25

\* the first user's history ends with nothing more, or with a title whose
\* normalization keeps two spaces
EmitGorg ==
    { AggGorg, Append(AggGorg, [film_title |-> <<"a", " ", "&", " ", "b">>, rating |-> Num(3)]) }

EmitSali ==
    << [film_title |-> <<"h", "e", "a", "t">>, rating |-> Frac(9, 2)],
       [film_title |-> <<"A", "l", "i", "e", "n">>, rating |-> Num(5)] >>

\* how counts and ratings are spread over the candidates
EmitPatterns == {"rising", "falling", "ties", "weighted"}

EmitRating(i, pattern) ==
    CASE pattern = "rising" -> Frac(60 + i, 10)
      [] pattern = "falling" -> Frac(90 - i, 10)
      [] pattern = "ties" -> Num(7)
      [] pattern = "weighted" -> Num(6 + (i % 3))

\* 1 to 4 loved titles
EmitSourcesOf(i, loved) ==
    [k \in 1..(1 + (i % 4)) |-> loved[((i + k) % Len(loved)) + 1].title]

EmitCount(i, pattern, loved) ==
    Len(EmitSourcesOf(i, loved)) * (IF pattern = "weighted" /\ i % 2 = 0 THEN 3 ELSE 1)

\* candidate i of an aggregation; the candidate at position special is "a b"
EmitCandidate(i, pattern, special, loved) ==
    LET title == IF i = special THEN <<"a", " ", "b">> ELSE <<"m">> \o IntStr(i)
    IN  [title |-> title,
         count |-> EmitCount(i, pattern, loved),
         sources |-> EmitSourcesOf(i, loved),
         tmdb_data |-> << [title |-> title,
                           vote_average |-> EmitRating(i, pattern),
                           vote_count |-> 900,
                           release_date |-> <<"1", "9", "9", "9", "-", "1", "0", "-", "3", "0">>,
                           genre_ids |-> IF i % 2 = 0 THEN <<18>> ELSE <<35, 16>>] >>]

EmitInit ==
    /\ gorg_films \in EmitGorg
    /\ sali_films = EmitSali
    /\ both_loved = find_both_loved(gorg_films, sali_films)
    /\ index_both_loved = <<>>
    /\ lphase = "found"
    /\ \E n \in (TopN - 2)..(TopN + MaxOver), pattern \in EmitPatterns, special \in {0, 1, 2, TopN} :
          recommendations = [i \in 1..n |-> EmitCandidate(i, pattern, special, both_loved)]
    /\ \A k \in 1..Len(recommendations) :
          \A j \in 1..Len(recommendations[k].sources) :
              ~already_watched(recommendations[k].title, recommendations[k].sources[j],
                               watched_set(gorg_films), watched_set(sali_films),
                               all_watched_titles(gorg_films, sali_films))
    /\ sorted_recs = <<>>
    /\ loved_pos = Len(both_loved) + 1
    /\ processed = 0
    /\ aphase = "aggregating"
    /\ occurrences = <<>>
    /\ watched_skips = 0
    /\ recommendations_list = <<>>
    /\ rec_csv = PreviousRecs
    /\ TitleParked
    /\ PredParked
    /\ PipeParked
    /\ AdmitParked
    /\ ScrapeParked
    /\ LoadParked
    /\ FileParked
    /\ GateParked
    /\ TvParked

EmitNext == Rank \/ Emit

SpecEmit == EmitInit /\ [][EmitNext]_vars

\* candidate j comes before candidate k in the ranking: a higher score, or
\* the same score and inserted earlier
RanksBefore(j, k) ==
    \/ FGt(ScoreOf(recommendations[j]), ScoreOf(recommendations[k]))
    \/ ScoreOf(recommendations[j]) = ScoreOf(recommendations[k]) /\ j < k

\* the 25 highest-scoring aggregated candidates
TopCandidates ==
    {k \in 1..Len(recommendations) :
        Cardinality({j \in 1..Len(recommendations) : RanksBefore(j, k)}) < 25}

\* the exclusion as re-applied at emission: the candidate's normalized title
\* against the watch-set entries, normalized once more
WatchedAtEmission(title) ==
    \E w \in watched_set(gorg_films) \cup watched_set(sali_films) :
        normalize_title(title) = normalize_title(w)

RowScore(row) == FAdd(Num(2 * row.recommendation_count), row.tmdb_rating)

-----------------------------------------------------------------------------
(* The scraped tables and the order of the steps of one run, over
   SpecPipeline *)

\* C26: when a run has gone through its scrapes, the film table of each user
\* holds exactly the films that the scrape of this run returned for that
\* user, also when the scrape returned no films (0 stands for no rows).
C26_HistoryReplaced ==
    \A p \in Procs :
        pc[p] = "return" =>
            /\ run_films.gorg >= 0 => tables.gorg = run_films.gorg
            /\ run_films.sali >= 0 => tables.sali = run_films.sali

\* what holds of the code: the table is replaced by the films of this run
\* when the scrape found any
C26_HistoryReplacedWhenFound ==
    \A p \in Procs :
        pc[p] = "return" =>
            /\ run_films.gorg > 0 => tables.gorg = run_films.gorg
            /\ run_films.sali > 0 => tables.sali = run_films.sali

\* a run whose first scrape returned no films is about to return, and the
\* table of that user is the one an earlier run wrote
C26_StaleTable ==
    \E p \in Procs :
        pc[p] = "return" /\ run_films.gorg = 0 /\ run_films.sali = 1 /\ tables.gorg = 1

\* the changes of position that a run can make
RunOrder ==
    { <<"idle", "scrape_gorg">>, <<"idle", "skipped">>,
      <<"scrape_gorg", "scrape_sali">>, <<"scrape_gorg", "return">>,
      <<"scrape_sali", "check_csvs">>, <<"scrape_sali", "return">>,
      <<"check_csvs", "movies">>, <<"check_csvs", "return">>,
      <<"movies", "tv">>, <<"tv", "return">>, <<"return", "done">> }

\* C28: the steps of a run follow one another in the order first scrape,
\* second scrape, movie aggregation, TV aggregation; an aggregation is only
\* reached when both scrapes returned without an exception and both scraped
\* tables exist; an exception in a scrape ends the run with the tables as they
\* were; whatever the movie aggregation does, the TV aggregation follows it.
C28_StepOrder ==
    [][\A p \in Procs :
          /\ pc'[p] # pc[p] =>
                /\ <<pc[p], pc'[p]>> \in RunOrder
                /\ \A q \in Procs \ {p} : pc'[q] = pc[q]
          /\ pc'[p] \in {"movies", "tv"} =>
                /\ run_films'.gorg >= 0
                /\ run_films'.sali >= 0
                /\ tables'.gorg # 0
                /\ tables'.sali # 0
          /\ (pc[p] = "scrape_gorg" /\ pc'[p] # pc[p]) =>
                /\ (run_films'.gorg = -1) <=> (pc'[p] = "return")
                /\ run_films'.gorg = -1 => tables' = tables
          /\ (pc[p] = "scrape_sali" /\ pc'[p] # pc[p]) =>
                /\ (run_films'.sali = -1) <=> (pc'[p] = "return")
                /\ run_films'.sali = -1 => tables' = tables
          /\ (pc[p] = "check_csvs" /\ pc'[p] = "return") => (tables.gorg = 0 \/ tables.sali = 0)
          /\ (pc[p] = "movies" /\ pc'[p] # pc[p]) => pc'[p] = "tv"
          /\ (pc[p] = "tv" /\ pc'[p] # pc[p]) => pc'[p] = "return"
      ]_vars

\* a run whose movie aggregation left no movie table (it raised, or had no
\* rows) has gone on to the TV aggregation, which wrote its table
C28_Witness ==
    \E p \in Procs :
        /\ pc[p] = "return"
        /\ steps[p] = 4
        /\ run_films = [gorg |-> 1, sali |-> 1]
        /\ tables.movies = NoTable
        /\ tables.tv = [gorg |-> 1, sali |-> 1]

-----------------------------------------------------------------------------
(* The movie recommendation table after the emission, over SpecAgg *)

\* C27: once the emission of a run has completed, the recommendation table
\* holds exactly the rows this run produced, so that no row of an earlier
\* run survives, also when the run produced no rows.
C27_TableHoldsRunRows ==
    aphase = "emitted" => rec_csv = recommendations_list

\* what holds of the code: the table is the rows of this run when there are
\* any
C27_TableHoldsRunRowsWhenAny ==
    (aphase = "emitted" /\ recommendations_list # <<>>) => rec_csv = recommendations_list

\* a run produced no rows and the table still holds the row of the earlier
\* run
C27_StaleRows ==
    aphase = "emitted" /\ recommendations_list = <<>> /\ rec_csv = PreviousRecs

-----------------------------------------------------------------------------
(* Specification SpecGateway: a sequence of calls of the four catalog
   functions of movie_recommender_improved.py, each with any answer of the
   upstream service; call_log notes for every call its function, its
   arguments, whether it sent a request upstream, and what it returned *)

MaxCalls == 3

GateTitles == { <<"H", "e", "a", "t">>, <<"H", "e", "a", "t", " ", "(", "1", "9", "9", "5", ")">> }

\* year = None is 0
GateYears == { 0, 1995 }

GateIds == { 603 }

\* None, where a movie dict is expected
NoMovie == [id |-> 0]

\* answers of the upstream service: ok is FALSE for a failed request or an
\* error status, on which raise_for_status raises
UpstreamAnswers ==
    { [ok |-> TRUE, results |-> <<[id |-> 603]>>],
      [ok |-> TRUE, results |-> <<[id |-> 604], [id |-> 603]>>],
      [ok |-> TRUE, results |-> <<>>],
      [ok |-> FALSE, results |-> <<>>] }

\* title_clean and year of get_movie_info
search_query(title, year) ==
    LET title_clean == Strip(title)
        year_match == SearchYear(title_clean)
    IN  IF year_match # <<>> /\ year = 0
        THEN [title_clean |-> Strip(RemoveYear(title_clean)), year |-> ParseInt(year_match)]
        ELSE [title_clean |-> title_clean, year |-> year]

\* cache_key = f"{title_clean}_{year}" if year else title_clean
cache_key(title, year) ==
    LET q == search_query(title, year)
    IN  IF q.year # 0 THEN q.title_clean \o <<"_">> \o IntStr(q.year) ELSE q.title_clean

\* what get_movie_info returns and stores for an answer: the first result,
\* None for no results and for an exception
first_result(answer) ==
    IF answer.ok /\ answer.results # <<>> THEN answer.results[1] ELSE NoMovie

\* data.get("results", [])[:limit], [] for an exception
limited_results(answer) == IF answer.ok THEN Take(answer.results, 10) ELSE <<>>

\* the response body of the details endpoint, None for an exception
details_result(tmdb_id, answer) ==
    IF answer.ok THEN [id |-> tmdb_id] ELSE NoMovie

Logged(fn, args, requested, res) ==
    Append(call_log, [fn |-> fn, args |-> args, requested |-> requested, result |-> res])

GateInit ==
    /\ tmdb_cache = <<>>
    /\ call_log = <<>>
    /\ TitleParked
    /\ FilmsParked
    /\ PredParked
    /\ LovedParked
    /\ AggParked
    /\ PipeParked
    /\ AdmitParked
    /\ ScrapeParked
    /\ LoadParked
    /\ FileParked
    /\ TvParked

\* get_movie_info(title, year): answered from tmdb_cache when the key is
\* there, otherwise one request whose outcome is stored under the key
GetMovieInfo ==
    /\ Len(call_log) < MaxCalls
    /\ \E title \in GateTitles, year \in GateYears :
          \E key \in {cache_key(title, year)} :
              IF key \in DOMAIN tmdb_cache
              THEN /\ call_log' = Logged("get_movie_info", <<title, year>>, FALSE, tmdb_cache[key])
                   /\ UNCHANGED tmdb_cache
              ELSE \E answer \in UpstreamAnswers :
                      /\ tmdb_cache' = (key :> first_result(answer)) @@ tmdb_cache
                      /\ call_log' = Logged("get_movie_info", <<title, year>>, TRUE, first_result(answer))
    /\ UNCHANGED <<titleVars, filmVars, predVars, lovedVars, aggVars, pipeVars, admitVars, scrapeVars, loadVars, fileVars, tvVars>>

\* get_similar_movies(tmdb_id): one request on every call
GetSimilarMovies ==
    /\ Len(call_log) < MaxCalls
    /\ \E tmdb_id \in GateIds, answer \in UpstreamAnswers :
          call_log' = Logged("get_similar_movies", <<tmdb_id>>, TRUE, limited_results(answer))
    /\ UNCHANGED tmdb_cache
    /\ UNCHANGED <<titleVars, filmVars, predVars, lovedVars, aggVars, pipeVars, admitVars, scrapeVars, loadVars, fileVars, tvVars>>

\* get_movie_details(tmdb_id): one request on every call
GetMovieDetails ==
    /\ Len(call_log) < MaxCalls
    /\ \E tmdb_id \in GateIds, answer \in UpstreamAnswers :
          call_log' = Logged("get_movie_details", <<tmdb_id>>, TRUE, details_result(tmdb_id, answer))
    /\ UNCHANGED tmdb_cache
    /\ UNCHANGED <<titleVars, filmVars, predVars, lovedVars, aggVars, pipeVars, admitVars, scrapeVars, loadVars, fileVars, tvVars>>

\* get_recommendations(tmdb_id): one request on every call
GetRecommendations ==
    /\ Len(call_log) < MaxCalls
    /\ \E tmdb_id \in GateIds, answer \in UpstreamAnswers :
          call_log' = Logged("get_recommendations", <<tmdb_id>>, TRUE, limited_results(answer))
    /\ UNCHANGED tmdb_cache
    /\ UNCHANGED <<titleVars, filmVars, predVars, lovedVars, aggVars, pipeVars, admitVars, scrapeVars, loadVars, fileVars, tvVars>>

GateNext == GetMovieInfo \/ GetSimilarMovies \/ GetMovieDetails \/ GetRecommendations

SpecGateway == GateInit /\ [][GateNext]_vars

\* call j repeats call i: the same function with the same arguments
Repeats(i, j) ==
    /\ i < j
    /\ call_log[i].fn = call_log[j].fn
    /\ call_log[i].args = call_log[j].args

\* C29: a call that repeats an earlier call of the same function with the
\* same arguments sends no request upstream and returns what the first such
\* call returned, for the title search, the related titles of both modes and
\* the details.
C29_CallsMemoized ==
    \A i, j \in DOMAIN call_log :
        Repeats(i, j) =>
            /\ ~call_log[j].requested
            /\ call_log[j].result = call_log[i].result

\* what holds of the code: the title search is memoized, also when the first
\* call found nothing or failed
C29_SearchMemoized ==
    \A i, j \in DOMAIN call_log :
        (Repeats(i, j) /\ call_log[j].fn = "get_movie_info") =>
            /\ ~call_log[j].requested
            /\ call_log[j].result = call_log[i].result

\* get_similar_movies was called twice for one id: both calls sent a request
\* and they returned different lists
C29_SecondRequest ==
    \E i, j \in DOMAIN call_log :
        /\ Repeats(i, j)
        /\ call_log[j].fn = "get_similar_movies"
        /\ call_log[i].requested /\ call_log[j].requested
        /\ call_log[i].result = <<>>
        /\ call_log[j].result = <<[id |-> 604], [id |-> 603]>>

-----------------------------------------------------------------------------
(* Specification SpecTv: the module-level code of tv_recommender.py from the
   genre discovery to the emission, for any answers of the discovery endpoint
   over a small catalog of shows *)

\* how many genres of tv_genre_map are walked
MaxGenres == 3

\* the keys of tv_genre_map in their order
TvGenreNames ==
    << <<"D", "r", "a", "m", "a">>, <<"T", "h", "r", "i", "l", "l", "e", "r">>, <<"M", "y", "s", "t", "e", "r", "y">>, <<"C", "r", "i", "m", "e">>, <<"S", "c", "i", "-", "F", "i">>, <<"H", "o", "r", "r", "o", "r">>, <<"C", "o", "m", "e", "d", "y">> >>

\* MIN_TMDB_RATING, MIN_YEAR and MAX_YEAR of tv_recommender.py
TV_MIN_TMDB_RATING == Num(7)

TV_MIN_YEAR == 2000

TV_MAX_YEAR == 2026

TvGorg ==
    << [film_title |-> <<"H", "e", "a", "t", " ", "(", "1", "9", "9", "5", ")">>, rating |-> Num(5)],
       [film_title |-> <<"A", "l", "i", "e", "n">>, rating |-> Num(4)] >>

TvSali ==
    << [film_title |-> <<"h", "e", "a", "t">>, rating |-> Frac(9, 2)] >>

TvCatalog ==
    { [name |-> <<"D", "a", "r", "k">>, vote_average |-> Frac(19, 2), first_air_date |-> <<"2", "0", "1", "7", "-", "1", "2", "-", "0", "1">>],
      [name |-> <<"L", "o", "s", "t">>, vote_average |-> Num(7), first_air_date |-> <<"2", "0", "0", "4", "-", "0", "9", "-", "2", "2">>],
      [name |-> <<"H", "e", "a", "t">>, vote_average |-> Num(8), first_air_date |-> <<"2", "0", "1", "0", "-", "0", "1", "-", "0", "1">>],
      [name |-> <<"F", "a", "r", "g", "o">>, vote_average |-> Frac(69, 10), first_air_date |-> <<"2", "0", "1", "4", "-", "0", "4", "-", "1", "5">>],
      [name |-> <<"E", "R">>, vote_average |-> Num(8), first_air_date |-> <<"1", "9", "9", "9", "-", "1", "2", "-", "3", "1">>] }

\* answers of the discovery endpoint: an exception, or up to 2 different shows
TvAnswers ==
    { [ok |-> FALSE, results |-> <<>>], [ok |-> TRUE, results |-> <<>>] }
    \cup { [ok |-> TRUE, results |-> <<a>>] : a \in TvCatalog }
    \cup { [ok |-> TRUE, results |-> <<p[1], p[2]>>] :
             p \in {q \in TvCatalog \X TvCatalog :
                       q[1] # q[2] /\ q[2].name \in {<<"D", "a", "r", "k">>, <<"L", "o", "s", "t">>}} }

\* f"Popular {genre_name}"
popular_source(genre_name) == <<"P", "o", "p", "u", "l", "a", "r", " ">> \o genre_name

\* the tests of the discovery loop on one show
tv_admitted(tv, gorg_watched, sali_watched) ==
    /\ normalize_title(tv.name) \notin gorg_watched
    /\ normalize_title(tv.name) \notin sali_watched
    /\ FGe(tv.vote_average, TV_MIN_TMDB_RATING)
    /\ TV_MIN_YEAR <= year_of(tv.first_air_date)
    /\ year_of(tv.first_air_date) <= TV_MAX_YEAR

\* tv_recommendations[tv_title]: count += 1, sources.append, tmdb_data stored
\* when none is stored yet
tv_accumulate(recs, tv, genre_name) ==
    LET k == KeyPos(recs, tv.name)
    IN  IF k = 0
        THEN Append(recs, [title |-> tv.name, count |-> 1,
                           sources |-> <<popular_source(genre_name)>>,
                           tmdb_data |-> <<tv>>])
        ELSE [recs EXCEPT ![k] =
                 [title |-> @.title,
                  count |-> @.count + 1,
                  sources |-> Append(@.sources, popular_source(genre_name)),
                  tmdb_data |-> IF @.tmdb_data = <<>> THEN <<tv>> ELSE @.tmdb_data]]

\* for tv in results: the loop over the shows of one genre
RECURSIVE discover_shows(_, _, _, _, _)
discover_shows(recs, results, genre_name, gorg_watched, sali_watched) ==
    IF results = <<>> THEN recs
    ELSE discover_shows(IF tv_admitted(Head(results), gorg_watched, sali_watched)
                        THEN tv_accumulate(recs, Head(results), genre_name)
                        ELSE recs,
                        Tail(results), genre_name, gorg_watched, sali_watched)

\* the try block of one genre: an exception of the request leaves
\* tv_recommendations as it is
discover_genre(recs, answer, genre_name, gorg_watched, sali_watched) ==
    IF answer.ok
    THEN discover_shows(recs, Take(answer.results, 15), genre_name, gorg_watched, sali_watched)
    ELSE recs

\* the sort key (count, vote_average) of a is not smaller than that of b
tv_key_ge(a, b) ==
    \/ a.count > b.count
    \/ a.count = b.count /\ FGe(a.tmdb_data[1].vote_average, b.tmdb_data[1].vote_average)

RECURSIVE InsertByTvKey(_, _, _)
InsertByTvKey(sorted, i, recs) ==
    IF sorted = <<>> THEN <<i>>
    ELSE IF tv_key_ge(recs[Head(sorted)], recs[i])
         THEN <<Head(sorted)>> \o InsertByTvKey(Tail(sorted), i, recs)
         ELSE <<i>> \o sorted

RECURSIVE TvSortedIndices(_, _)
TvSortedIndices(recs, n) ==
    IF n = 0 THEN <<>> ELSE InsertByTvKey(TvSortedIndices(recs, n - 1), n, recs)

\* sorted(tv_recommendations.items(), key=(count, vote_average), reverse=True)
sort_tv_recs(recs) ==
    LET order == TvSortedIndices(recs, Len(recs))
    IN  [k \in 1..Len(recs) |-> recs[order[k]]]

\* tv_recommendations_list from sorted_tv_recs[:30]
build_tv_recommendations_list(sorted) ==
    LET top == Take(sorted, 30)
    IN  [k \in 1..Len(top) |->
            [title |-> top[k].title,
             tmdb_rating |-> top[k].tmdb_data[1].vote_average,
             recommended_because |-> IF top[k].sources # <<>>
                                     THEN Join(Take(top[k].sources, 3), CommaSpace)
                                     ELSE <<"P", "o", "p", "u", "l", "a", "r">>,
             recommendation_count |-> top[k].count]]

TvInit ==
    /\ gorg_films = TvGorg
    /\ sali_films = TvSali
    /\ tv_recommendations = <<>>
    /\ sorted_tv_recs = <<>>
    /\ tv_recommendations_list = <<>>
    /\ genre_pos = 1
    /\ tvphase = "discovering"
    /\ TitleParked
    /\ PredParked
    /\ LovedParked
    /\ AggParked
    /\ PipeParked
    /\ AdmitParked
    /\ ScrapeParked
    /\ LoadParked
    /\ FileParked
    /\ GateParked

\* one pass of the genre loop
Discover ==
    /\ tvphase = "discovering"
    /\ genre_pos <= MaxGenres
    /\ \E answer \in TvAnswers :
          tv_recommendations' = discover_genre(tv_recommendations, answer, TvGenreNames[genre_pos],
                                               watched_set(gorg_films), watched_set(sali_films))
    /\ genre_pos' = genre_pos + 1
    /\ UNCHANGED <<sorted_tv_recs, tv_recommendations_list, tvphase>>
    /\ UNCHANGED <<titleVars, filmVars, predVars, lovedVars, aggVars, pipeVars, admitVars, scrapeVars, loadVars, fileVars, gateVars>>

\* after the genre loop: sorted_tv_recs
SortTv ==
    /\ tvphase = "discovering"
    /\ genre_pos > MaxGenres
    /\ sorted_tv_recs' = sort_tv_recs(tv_recommendations)
    /\ tvphase' = "sorted"
    /\ UNCHANGED <<tv_recommendations, tv_recommendations_list, genre_pos>>
    /\ UNCHANGED <<titleVars, filmVars, predVars, lovedVars, aggVars, pipeVars, admitVars, scrapeVars, loadVars, fileVars, gateVars>>

\* the emission loop
EmitTv ==
    /\ tvphase = "sorted"
    /\ tv_recommendations_list' = build_tv_recommendations_list(sorted_tv_recs)
    /\ tvphase' = "emitted"
    /\ UNCHANGED <<tv_recommendations, sorted_tv_recs, genre_pos>>
    /\ UNCHANGED <<titleVars, filmVars, predVars, lovedVars, aggVars, pipeVars, admitVars, scrapeVars, loadVars, fileVars, gateVars>>

TvNext == Discover \/ SortTv \/ EmitTv

SpecTv == TvInit /\ [][TvNext]_vars

\* every candidate comes from the genre discovery and passed the rating bar
TvSourcesAndBar ==
    \A k \in 1..Len(tv_recommendations) :
        /\ tv_recommendations[k].count = Len(tv_recommendations[k].sources)
        /\ \A s \in 1..Len(tv_recommendations[k].sources) :
              \E g \in 1..Len(TvGenreNames) :
                  tv_recommendations[k].sources[s] = popular_source(TvGenreNames[g])
        /\ tv_recommendations[k].tmdb_data # <<>>
        /\ FGe(tv_recommendations[k].tmdb_data[1].vote_average, Num(7))
        /\ \E tv \in TvCatalog : tv.name = tv_recommendations[k].title

\* the emitted rows are the sorted candidates in their order
TvRowsInSortedOrder ==
    tvphase = "emitted" =>
        /\ Len(tv_recommendations_list) = Len(sorted_tv_recs)
        /\ \A k \in 1..Len(sorted_tv_recs) :
              /\ tv_recommendations_list[k].title = sorted_tv_recs[k].title
              /\ tv_recommendations_list[k].recommendation_count = sorted_tv_recs[k].count

\* the sorted list holds every candidate once
TvSortedIsPermutation ==
    tvphase \in {"sorted", "emitted"} =>
        /\ Len(sorted_tv_recs) = Len(tv_recommendations)
        /\ \A k \in 1..Len(tv_recommendations) :
              \E j \in 1..Len(sorted_tv_recs) : sorted_tv_recs[j] = tv_recommendations[k]

\* C30: the TV candidates are emitted in descending order of the score of
\* the movie ranking, count x 2 + rating; every candidate comes from the
\* genre discovery only, and has a rating of at least 7.0.
C30_TvRankedByScore ==
    /\ TvSourcesAndBar
    /\ TvSortedIsPermutation
    /\ TvRowsInSortedOrder
    /\ tvphase \in {"sorted", "emitted"} =>
          \A i, j \in 1..Len(sorted_tv_recs) :
              i < j => FGe(ScoreOf(sorted_tv_recs[i]), ScoreOf(sorted_tv_recs[j]))

\* what holds of the code: the order is by count first and by rating among
\* equal counts
C30_TvRankedByCountThenRating ==
    /\ TvSourcesAndBar
    /\ TvSortedIsPermutation
    /\ TvRowsInSortedOrder
    /\ tvphase \in {"sorted", "emitted"} =>
          \A i, j \in 1..Len(sorted_tv_recs) :
              i < j => tv_key_ge(sorted_tv_recs[i], sorted_tv_recs[j])

\* a show found under two genres with rating 7.0 is emitted before a show
\* found under one genre with rating 9.5, whose score is higher
C30_CountBeforeScore ==
    /\ tvphase = "emitted"
    /\ Len(tv_recommendations_list) = 2
    /\ tv_recommendations_list[1].title = <<"L", "o", "s", "t">>
    /\ tv_recommendations_list[1].recommendation_count = 2
    /\ tv_recommendations_list[2].title = <<"D", "a", "r", "k">>
    /\ tv_recommendations_list[2].recommendation_count = 1
    /\ FGt(ScoreOf(sorted_tv_recs[2]), ScoreOf(sorted_tv_recs[1]))

=============================================================================
